---- MODULE Spec2Model ----
(***************************************************************************)
(* Model of the NDEF utilities of web-nfc-demo (src/utils/nfcUtils.ts):    *)
(* isNDEFRecordTypeExternal, estimateNdefMessageSize, arrayBufferToBase64, *)
(* arrayBufferToHexString and hexStringToArrayBuffer.                      *)
(*                                                                         *)
(* JavaScript strings are sequences of UTF-16 code units (naturals), byte  *)
(* buffers are sequences of naturals below 256, and a JavaScript value of  *)
(* a dynamically typed field is a record tagged with its kind.             *)
(***************************************************************************)
EXTENDS Integers, Sequences, FiniteSets, TLC

VARIABLES
  pc,          \* which utility the caller is about to apply, or has applied
  records,     \* estimateNdefMessageSize: the message passed in
  totalSize,   \* estimateNdefMessageSize: the value returned
  recordType,  \* isNDEFRecordTypeExternal: the string passed in
  isExternal,  \* isNDEFRecordTypeExternal: the value returned
  buffer,      \* the byte buffer handed to arrayBufferToBase64 / arrayBufferToHexString
  mediaType,   \* arrayBufferToBase64: the media type passed in
  base64,      \* arrayBufferToBase64: the string returned
  base64V2,    \* arrayBufferToBase64 (second copy of the file): the string returned
  hexString,   \* the string handed to hexStringToArrayBuffer
  hexBuffer,   \* hexStringToArrayBuffer (nfcUtils.ts): the bytes returned
  hexBufferV2, \* hexStringToArrayBuffer (second copy of the file): the bytes returned
  form,        \* AddRecordForm: the refs behind the form inputs
  isMimeTextBasedLogic, \* prepareRecordPayload: the flag passed in
  payload,     \* prepareRecordPayload: the record returned
  emitted,     \* the add-record events emitted by handleSubmit, oldest first
  alerts,      \* window.alert: the messages shown, oldest first
  ndefRecord,  \* decodeRecord: the NDEFRecord passed in
  decoded,     \* decodeRecord: how the call ended (a returned string or a thrown error)
  scannedTag,  \* recordService: the working tag, with its list of records
  showAddForm, \* recordService: whether the add-record form is shown
  warnings,    \* console.warn: the messages logged, oldest first
  index,       \* handleDeleteRecord: the index passed in
  status,      \* nfcService: the reading and writing flags
  recordsToWrite, \* writeNFC: the records handed to NDEFReader.write
  scanAbortController, \* App: the ref of the abort controller, 0 for null, else the
               \* number of the readNFC call that made the controller
  continuousScan, \* App: the ref of the continuous-scan switch
  sessions,    \* readNFC: what each call that started a scan made (its NDEFReader's
               \* handlers, its AbortController, its scan() promise, its own promise)
  lastOp,      \* the operation that ran last, with the session and event it was given
  opCount      \* how many operations of the scan service have run

utilVars == <<records, totalSize, recordType, isExternal, buffer, mediaType,
              base64, base64V2, hexString, hexBuffer, hexBufferV2>>
formVars == <<form, isMimeTextBasedLogic, payload, emitted>>
decodeVars == <<ndefRecord, decoded>>
scanVars == <<scanAbortController, continuousScan, sessions, lastOp, opCount>>
tagVars == <<scannedTag, showAddForm, index, status, warnings, recordsToWrite, scanVars>>

vars == <<pc, utilVars, formVars, alerts, decodeVars, tagVars>>

(***************************************************************************)
(* Bounds of the model.                                                    *)
(***************************************************************************)
\* longest top-level message drawn from the small record pool
MaxRecords == 2
\* longest nested (smart-poster) message
MaxNested == 2
\* longest byte buffer built from the sample bytes
MaxBytes == 5
\* longest hex digit string (without prefix) built from the sample digits
MaxHexLen == 3
\* longest record type string built from the sample characters
MaxTypeLen == 4
\* external type strings of the form: at most this many characters
MaxExtLen == 3
\* buffers behind the views handed to decodeRecord: at most this many bytes
MaxViewBytes == 3
\* longest working list a scan leaves in the tag
MaxTagRecords == 3

\* the payload length from which the long (4-byte) length field is used
SRLimit == 256

(***************************************************************************)
(* Strings.                                                                *)
(***************************************************************************)
S_empty == <<101, 109, 112, 116, 121>>
S_text == <<116, 101, 120, 116>>
S_url == <<117, 114, 108>>
S_smartPoster == <<115, 109, 97, 114, 116, 45, 112, 111, 115, 116, 101, 114>>
S_absoluteUrl == <<97, 98, 115, 111, 108, 117, 116, 101, 45, 117, 114, 108>>
S_mime == <<109, 105, 109, 101>>
S_unknown == <<117, 110, 107, 110, 111, 119, 110>>
S_T == <<84>>
S_U == <<85>>
S_Sp == <<83, 112>>
S_en == <<101, 110>>
S_enUS == <<101, 110, 45, 85, 83>>
\* "example.com:mytype"
S_external == <<101, 120, 97, 109, 112, 108, 101, 46, 99, 111, 109, 58, 109, 121, 116, 121, 112, 101>>
S_nodomain == <<110, 111, 100, 111, 109, 97, 105, 110>>
S_Hello == <<72, 101, 108, 108, 111>>
S_myId == <<109, 121, 45, 105, 100>>
S_imagePng == <<105, 109, 97, 103, 101, 47, 112, 110, 103>>
S_textPlain == <<116, 101, 120, 116, 47, 112, 108, 97, 105, 110>>
\* "https://example.com"
S_httpsUrl == <<104, 116, 116, 112, 115, 58, 47, 47, 101, 120, 97, 109, 112, 108, 101, 46, 99, 111, 109>>
S_Title == <<84, 105, 116, 108, 101>>
\* "h", e-acute (2 bytes), euro sign (3 bytes), a surrogate pair (4 bytes)
S_unicode == <<104, 233, 8364, 55357, 56832>>
\* a lone high surrogate: encoded as U+FFFD (3 bytes)
S_loneSurrogate == <<55357>>

\* 'a'.repeat(n)
Repeat(n) == [i \in 1..n |-> 97]

\* String.prototype.includes for a single code unit
Includes(s, c) == \E i \in 1..Len(s) : s[i] = c

\* String.prototype.startsWith
StartsWith(s, p) == Len(s) >= Len(p) /\ SubSeq(s, 1, Len(p)) = p

IsHighSurrogate(c) == c >= 55296 /\ c <= 56319
IsLowSurrogate(c) == c >= 56320 /\ c <= 57343

\* the number of UTF-8 bytes the code unit at position i of s accounts for: a
\* surrogate pair is 4 bytes (counted at its first unit), a lone surrogate is
\* replaced by U+FFFD (3 bytes)
utf8BytesAt(s, i) ==
  IF s[i] < 128 THEN 1
  ELSE IF s[i] < 2048 THEN 2
  ELSE IF IsHighSurrogate(s[i]) /\ i < Len(s) /\ IsLowSurrogate(s[i + 1]) THEN 4
  ELSE IF IsLowSurrogate(s[i]) /\ i > 1 /\ IsHighSurrogate(s[i - 1]) THEN 0
  ELSE 3

\* the UTF-8 length of positions lo..hi of s, summed by halves
RECURSIVE utf8LengthOf(_, _, _)
utf8LengthOf(s, lo, hi) ==
  IF lo > hi THEN 0
  ELSE IF lo = hi THEN utf8BytesAt(s, lo)
  ELSE utf8LengthOf(s, lo, (lo + hi) \div 2) + utf8LengthOf(s, (lo + hi) \div 2 + 1, hi)

\* new TextEncoder().encode(s).length
textEncoderLength(s) == utf8LengthOf(s, 1, Len(s))

(***************************************************************************)
(* JavaScript values of the optional, dynamically typed record fields.     *)
(***************************************************************************)
Undefined == [kind |-> "undefined"]
StringValue(s) == [kind |-> "string", str |-> s]
ArrayBufferValue(b) == [kind |-> "ArrayBuffer", bytes |-> b]
\* a DataView: a window of byteLength bytes, from byteOffset, on a buffer
DataViewOver(buf, off, len) ==
  [kind |-> "DataView", buffer |-> buf, byteOffset |-> off, byteLength |-> len]
DataViewValue(b) == DataViewOver(b, 0, Len(b))
\* an NDEFMessageInit: an object with a 'records' member
MessageValue(rs) == [kind |-> "message", records |-> rs]

Null == [kind |-> "null"]

\* JavaScript truthiness (undefined, null and "" are falsy, every object is truthy)
Truthy(v) == CASE v.kind \in {"undefined", "null"} -> FALSE
               [] v.kind = "string" -> v.str # <<>>
               [] OTHER -> TRUE

\* s || dflt for an optional string field
OrDefault(v, dflt) == IF Truthy(v) THEN v.str ELSE dflt

Record(t, mt, id, enc, lang, data) ==
  [recordType |-> t, mediaType |-> mt, id |-> id, encoding |-> enc,
   lang |-> lang, data |-> data]

(***************************************************************************)
(* isNDEFRecordTypeExternal                                                *)
(***************************************************************************)
standardTypes == {S_empty, S_text, S_url, S_smartPoster, S_absoluteUrl, S_mime, S_unknown}

\* mutant: the colon test is dropped
isNDEFRecordTypeExternal_noColon(t) ==
  IF t = <<>> THEN FALSE ELSE t \notin standardTypes

isNDEFRecordTypeExternal(t) ==
  IF t = <<>> THEN FALSE
  ELSE t \notin standardTypes /\ Includes(t, 58)

(***************************************************************************)
(* estimateNdefMessageSize                                                 *)
(***************************************************************************)
RECURSIVE estimateNdefMessageSize(_, _)

typeStringForCalc(record) ==
  IF record.recordType = S_empty \/ record.recordType = S_unknown THEN <<>>
  ELSE IF record.recordType = S_absoluteUrl
       THEN (IF record.data.kind = "string" THEN record.data.str ELSE <<>>)
  ELSE IF record.recordType = S_mime /\ Truthy(record.mediaType) THEN record.mediaType.str
  ELSE IF isNDEFRecordTypeExternal(record.recordType) THEN record.recordType
  ELSE IF record.recordType = S_text THEN S_T
  ELSE IF record.recordType = S_url THEN S_U
  ELSE IF record.recordType = S_smartPoster THEN S_Sp
  ELSE record.recordType

typeFieldLength(record) == textEncoderLength(typeStringForCalc(record))

\* mutant: the absolute-url branch is missing, so the URL is counted as payload too
payloadByteLength_noAbsoluteUrl(record) ==
  IF record.recordType = S_text THEN
    1 + textEncoderLength(OrDefault(record.lang, S_en))
      + (IF record.data.kind = "string" THEN textEncoderLength(record.data.str) ELSE 0)
  ELSE IF record.recordType = S_smartPoster /\ record.data.kind = "message" THEN
    estimateNdefMessageSize(record.data.records, TRUE)
  ELSE IF Truthy(record.data) THEN
    (IF record.data.kind = "string" THEN textEncoderLength(record.data.str)
     ELSE IF record.data.kind = "ArrayBuffer" THEN Len(record.data.bytes)
     ELSE 0)
  ELSE 0

payloadByteLength(record) ==
  IF record.recordType = S_absoluteUrl THEN 0
  ELSE IF record.recordType = S_text THEN
    1 + textEncoderLength(OrDefault(record.lang, S_en))
      + (IF record.data.kind = "string" THEN textEncoderLength(record.data.str) ELSE 0)
  ELSE IF record.recordType = S_smartPoster /\ record.data.kind = "message" THEN
    estimateNdefMessageSize(record.data.records, TRUE)
  ELSE IF Truthy(record.data) THEN
    (IF record.data.kind = "string" THEN textEncoderLength(record.data.str)
     ELSE IF record.data.kind = "ArrayBuffer" THEN Len(record.data.bytes)
     ELSE 0)
  ELSE 0

\* mutant: the long form is taken for every payload
payloadLengthFieldSize_alwaysLong(payloadLen, isRecursiveCall) == 4

\* mutant: the short form is also taken for a payload of exactly 256 bytes
payloadLengthFieldSize_offByOne(payloadLen, isRecursiveCall) ==
  IF payloadLen <= SRLimit /\ ~isRecursiveCall THEN 1 ELSE 4

\* Payload Length field (SR or not)
payloadLengthFieldSize(payloadLen, isRecursiveCall) ==
  IF payloadLen < SRLimit /\ ~isRecursiveCall THEN 1 ELSE 4

idFieldSize(record) ==
  IF Truthy(record.id) THEN 1 + textEncoderLength(record.id.str) ELSE 0

\* mutant: no early return for an empty record
recordSize_noEmptyReturn(record, isRecursiveCall) ==
  1 + 1 + typeFieldLength(record)
    + payloadLengthFieldSize(payloadByteLength(record), isRecursiveCall)
    + idFieldSize(record)
    + payloadByteLength(record)

\* what one pass of the forEach callback adds to totalSize
recordSize(record, isRecursiveCall) ==
  IF record.recordType = S_empty THEN 1
  ELSE 1 + 1 + typeFieldLength(record)
         + payloadLengthFieldSize(payloadByteLength(record), isRecursiveCall)
         + idFieldSize(record)
         + payloadByteLength(record)

\* records.forEach(...) from index i on, with the accumulator totalSize
RECURSIVE forEachRecord(_, _, _, _)
forEachRecord(rs, isRecursiveCall, i, acc) ==
  IF i > Len(rs) THEN acc
  ELSE forEachRecord(rs, isRecursiveCall, i + 1, acc + recordSize(rs[i], isRecursiveCall))

\* mutant: the early return of the empty record leaves the whole function (a for
\* loop instead of forEach), so records after an empty one are not counted
RECURSIVE forEachRecord_returnExits(_, _, _, _)
forEachRecord_returnExits(rs, isRecursiveCall, i, acc) ==
  IF i > Len(rs) THEN acc
  ELSE IF rs[i].recordType = S_empty THEN acc + 1
  ELSE forEachRecord_returnExits(rs, isRecursiveCall, i + 1,
                                 acc + recordSize(rs[i], isRecursiveCall))

estimateNdefMessageSize_returnExits(rs, isRecursiveCall) ==
  forEachRecord_returnExits(rs, isRecursiveCall, 1, 0)

estimateNdefMessageSize(rs, isRecursiveCall) ==
  forEachRecord(rs, isRecursiveCall, 1, 0)

(***************************************************************************)
(* Bit operations on non-negative integers.                                *)
(***************************************************************************)
RECURSIVE BitAnd(_, _)
BitAnd(a, b) ==
  IF a = 0 \/ b = 0 THEN 0
  ELSE (a % 2) * (b % 2) + 2 * BitAnd(a \div 2, b \div 2)

RECURSIVE BitOr(_, _)
BitOr(a, b) ==
  IF a = 0 THEN b
  ELSE IF b = 0 THEN a
  ELSE (IF a % 2 = 1 \/ b % 2 = 1 THEN 1 ELSE 0) + 2 * BitOr(a \div 2, b \div 2)

ShiftRight(a, n) == a \div (2 ^ n)
ShiftLeft(a, n) == a * (2 ^ n)

\* bytes[i] of a Uint8Array, i counted from 0
ByteAt(bytes, i) == bytes[i + 1]

(***************************************************************************)
(* arrayBufferToBase64                                                     *)
(***************************************************************************)
\* "ABCDEFGHIJKLMNOPQRSTUVWXYZabcdefghijklmnopqrstuvwxyz0123456789+/"
base64Chars ==
  <<65, 66, 67, 68, 69, 70, 71, 72, 73, 74, 75, 76, 77, 78, 79, 80, 81, 82, 83, 84,
    85, 86, 87, 88, 89, 90, 97, 98, 99, 100, 101, 102, 103, 104, 105, 106, 107, 108,
    109, 110, 111, 112, 113, 114, 115, 116, 117, 118, 119, 120, 121, 122, 48, 49, 50,
    51, 52, 53, 54, 55, 56, 57, 43, 47>>

\* base64Chars[k], k counted from 0
Base64Char(k) == base64Chars[k + 1]

S_dataColon == <<100, 97, 116, 97, 58>>
S_base64Comma == <<59, 98, 97, 115, 101, 54, 52, 44>>
S_equals == <<61>>

\* the four characters the loop body appends for bytes i, i+1, i+2
base64Group(bytes, i) ==
  << Base64Char(ShiftRight(ByteAt(bytes, i), 2)),
     Base64Char(BitOr(ShiftLeft(BitAnd(ByteAt(bytes, i), 3), 4),
                      ShiftRight(ByteAt(bytes, i + 1), 4))),
     Base64Char(BitOr(ShiftLeft(BitAnd(ByteAt(bytes, i + 1), 15), 2),
                      ShiftRight(ByteAt(bytes, i + 2), 6))),
     Base64Char(BitAnd(ByteAt(bytes, i + 2), 63)) >>

\* for (i = 0; i < bytes.length - 2; i += 3): the final i and result
RECURSIVE base64Loop(_, _, _)
base64Loop(bytes, i, result) ==
  IF i < Len(bytes) - 2
  THEN base64Loop(bytes, i + 3, result \o base64Group(bytes, i))
  ELSE [i |-> i, result |-> result]

\* mutant: the one-byte remainder is closed with a single "="
base64Tail_shortPad(bytes, i) ==
  IF i < Len(bytes) THEN
    <<Base64Char(ShiftRight(ByteAt(bytes, i), 2))>> \o
    (IF Len(bytes) % 3 = 2
     THEN << Base64Char(BitOr(ShiftLeft(BitAnd(ByteAt(bytes, i), 3), 4),
                              ShiftRight(ByteAt(bytes, i + 1), 4))),
             Base64Char(ShiftLeft(BitAnd(ByteAt(bytes, i + 1), 15), 2)) >> \o S_equals
     ELSE <<Base64Char(ShiftLeft(BitAnd(ByteAt(bytes, i), 3), 4))>> \o S_equals)
  ELSE <<>>

\* if (i < bytes.length) { ... }: the characters for the one or two bytes left
base64Tail(bytes, i) ==
  IF i < Len(bytes) THEN
    <<Base64Char(ShiftRight(ByteAt(bytes, i), 2))>> \o
    (IF Len(bytes) % 3 = 2
     THEN << Base64Char(BitOr(ShiftLeft(BitAnd(ByteAt(bytes, i), 3), 4),
                              ShiftRight(ByteAt(bytes, i + 1), 4))),
             Base64Char(ShiftLeft(BitAnd(ByteAt(bytes, i + 1), 15), 2)) >> \o S_equals
     ELSE <<Base64Char(ShiftLeft(BitAnd(ByteAt(bytes, i), 3), 4))>> \o S_equals \o S_equals)
  ELSE <<>>

arrayBufferToBase64(bytes, mt) ==
  LET loop == base64Loop(bytes, 0, <<>>)
  IN S_dataColon \o mt \o S_base64Comma \o loop.result \o base64Tail(bytes, loop.i)

\* The second copy of the function: one loop over all groups, a missing byte
\* being undefined.
base64GroupV2(bytes, i) ==
  LET byte1 == ByteAt(bytes, i)
      has2 == i + 1 < Len(bytes)
      has3 == i + 2 < Len(bytes)
      char1 == ShiftRight(byte1, 2)
      char2 == BitOr(ShiftLeft(BitAnd(byte1, 3), 4),
                     IF has2 THEN ShiftRight(ByteAt(bytes, i + 1), 4) ELSE 0)
      char3 == IF has2
               THEN BitOr(ShiftLeft(BitAnd(ByteAt(bytes, i + 1), 15), 2),
                          IF has3 THEN ShiftRight(ByteAt(bytes, i + 2), 6) ELSE 0)
               ELSE 64
      char4 == IF has3 THEN BitAnd(ByteAt(bytes, i + 2), 63) ELSE 64
  IN << Base64Char(char1), Base64Char(char2) >>
     \o (IF has2 THEN <<Base64Char(char3)>> ELSE S_equals)
     \o (IF has3 THEN <<Base64Char(char4)>> ELSE S_equals)

RECURSIVE base64LoopV2(_, _, _)
base64LoopV2(bytes, i, result) ==
  IF i < Len(bytes)
  THEN base64LoopV2(bytes, i + 3, result \o base64GroupV2(bytes, i))
  ELSE result

arrayBufferToBase64V2(bytes, mt) ==
  S_dataColon \o mt \o S_base64Comma \o base64LoopV2(bytes, 0, <<>>)

(***************************************************************************)
(* arrayBufferToHexString                                                  *)
(***************************************************************************)
\* the lowercase digit character of a value below 16
HexDigitChar(d) == IF d < 10 THEN 48 + d ELSE 87 + d

\* Number.prototype.toString(16) of a non-negative integer
RECURSIVE toString16(_)
toString16(n) ==
  IF n < 16 THEN <<HexDigitChar(n)>>
  ELSE toString16(n \div 16) \o <<HexDigitChar(n % 16)>>

\* String.prototype.padStart(targetLength, padChar)
RECURSIVE padStart(_, _, _)
padStart(s, targetLength, padChar) ==
  IF Len(s) >= targetLength THEN s
  ELSE padStart(<<padChar>> \o s, targetLength, padChar)

\* mutant: the digits of a byte are not padded to two
byteToHex_noPad(b) == toString16(b)

\* byteArray[i].toString(16).padStart(2, "0")
byteToHex(b) == padStart(toString16(b), 2, 48)

RECURSIVE hexLoop(_, _, _)
hexLoop(bytes, i, hex) ==
  IF i < Len(bytes) THEN hexLoop(bytes, i + 1, hex \o byteToHex(ByteAt(bytes, i)))
  ELSE hex

arrayBufferToHexString(bytes) == hexLoop(bytes, 0, <<>>)

(***************************************************************************)
(* hexStringToArrayBuffer                                                  *)
(***************************************************************************)
S_0x == <<48, 120>>

\* the value of a hex digit character of either case, -1 for any other character
HexDigitValue(c) ==
  IF c >= 48 /\ c <= 57 THEN c - 48
  ELSE IF c >= 65 /\ c <= 70 THEN c - 55
  ELSE IF c >= 97 /\ c <= 102 THEN c - 87
  ELSE 0 - 1

\* parseInt(byteString, 16) of a two-character string without sign or white
\* space: a leading "0x" or "0X" is skipped, then the longest run of hex digits
\* is read; [nan |-> TRUE] when there is none
parseInt16(byteString) ==
  LET s == IF byteString[1] = 48 /\ byteString[2] \in {120, 88} THEN <<>> ELSE byteString
  IN IF s = <<>> \/ HexDigitValue(s[1]) < 0 THEN [nan |-> TRUE, value |-> 0]
     ELSE IF HexDigitValue(s[2]) < 0 THEN [nan |-> FALSE, value |-> HexDigitValue(s[1])]
     ELSE [nan |-> FALSE, value |-> 16 * HexDigitValue(s[1]) + HexDigitValue(s[2])]

\* typedArray[k] = v for a Uint8Array: NaN is stored as 0
ToUint8(v) == IF v.nan THEN 0 ELSE v.value % 256

\* for (let i = 0; i < hex.length; i += 2) typedArray[i / 2] = parseInt(...)
hexDecode(hex) ==
  [k \in 1..(Len(hex) \div 2) |-> ToUint8(parseInt16(SubSeq(hex, 2 * k - 1, 2 * k)))]

\* hexString.startsWith("0x") ? hexString.slice(2) : hexString
stripHexPrefix(s) == IF StartsWith(s, S_0x) THEN SubSeq(s, 3, Len(s)) ELSE s

hexStringToArrayBuffer(s) ==
  LET hex == stripHexPrefix(s)
  IN hexDecode(IF Len(hex) % 2 # 0 THEN hex \o <<48>> ELSE hex)

\* The second copy of the function: a single digit gets a leading zero, any
\* other odd length a trailing zero.
hexStringToArrayBufferV2(s) ==
  LET hexSanitized == stripHexPrefix(s)
      finalHex == IF Len(hexSanitized) = 1 THEN <<48>> \o hexSanitized
                  ELSE IF Len(hexSanitized) % 2 # 0 THEN hexSanitized \o <<48>>
                  ELSE hexSanitized
  IN hexDecode(finalHex)

(***************************************************************************)
(* The inputs the utilities are applied to.                                *)
(***************************************************************************)
SeqsUpTo(S, n) == UNION {[1..k -> S] : k \in 0..n}

S_utf8 == <<117, 116, 102, 45, 56>>
S_colonType == <<58, 116, 121, 112, 101>>
S_domainColon == <<100, 111, 109, 97, 105, 110, 58>>
S_0xF == <<48, 120, 70>>
S_0xFF0 == <<48, 120, 70, 70, 48>>
S_0xABCDE == <<48, 120, 65, 66, 67, 68, 69>>
S_0xaBcDeF == <<48, 120, 97, 66, 99, 68, 101, 70>>
\* "0x48656c6c6f"
S_0xHello == <<48, 120, 52, 56, 54, 53, 54, 99, 54, 99, 54, 102>>

Zeros(n) == [i \in 1..n |-> 0]

\* the records a smart-poster message is built from
N_url == Record(S_url, Undefined, Undefined, Undefined, Undefined, StringValue(S_httpsUrl))
N_text == Record(S_text, Undefined, Undefined, StringValue(S_utf8), StringValue(S_en),
                 StringValue(S_Title))
N_empty == Record(S_empty, Undefined, Undefined, Undefined, Undefined, Undefined)
N_longText == Record(S_text, Undefined, Undefined, Undefined, StringValue(S_en),
                     StringValue(Repeat(SRLimit - 3)))
N_poster == Record(S_smartPoster, Undefined, Undefined, Undefined, Undefined,
                   MessageValue(<<N_url>>))
NestedPool == {N_url, N_text, N_empty, N_longText, N_poster}
NestedMessages == SeqsUpTo(NestedPool, MaxNested)

RecordTypes == standardTypes \cup {S_external, S_nodomain}

DataValues ==
  { Undefined,
    StringValue(<<>>), StringValue(S_Hello), StringValue(S_unicode),
    StringValue(S_loneSurrogate),
    StringValue(Repeat(SRLimit - 4)), StringValue(Repeat(SRLimit - 3)),
    StringValue(Repeat(SRLimit - 1)), StringValue(Repeat(SRLimit)),
    ArrayBufferValue(<<>>), ArrayBufferValue(<<1, 2, 3>>),
    ArrayBufferValue(Zeros(SRLimit - 1)), ArrayBufferValue(Zeros(SRLimit)),
    DataViewValue(<<1, 2>>),
    MessageValue(<<>>), MessageValue(<<N_url, N_text>>) }

IdValues == {Undefined, StringValue(<<>>), StringValue(S_myId)}
MediaTypeValues == {Undefined, StringValue(S_imagePng)}
LangValues == {Undefined, StringValue(<<>>), StringValue(S_enUS)}
EncodingValues == {Undefined, StringValue(S_utf8)}

\* every combination of the fields of one record
FieldPool ==
  { Record(t, mt, id, enc, lang, data) :
      t \in RecordTypes, mt \in MediaTypeValues, id \in IdValues,
      enc \in EncodingValues, lang \in LangValues, data \in DataValues }

\* a smart-poster around every nested message
PosterPool ==
  { Record(S_smartPoster, Undefined, id, Undefined, Undefined, MessageValue(m)) :
      id \in {Undefined, StringValue(S_myId)}, m \in NestedMessages }

\* the records longer messages are built from
SmallPool ==
  { Record(S_empty, StringValue(S_imagePng), StringValue(S_myId), Undefined,
           StringValue(S_en), StringValue(S_Hello)),
    Record(S_text, Undefined, Undefined, Undefined, StringValue(S_en), StringValue(S_Hello)),
    Record(S_text, Undefined, StringValue(S_myId), Undefined, StringValue(S_en),
           StringValue(Repeat(SRLimit - 3))),
    Record(S_absoluteUrl, Undefined, Undefined, Undefined, Undefined, StringValue(S_httpsUrl)),
    Record(S_mime, StringValue(S_imagePng), Undefined, Undefined, Undefined,
           ArrayBufferValue(Zeros(SRLimit))),
    Record(S_external, Undefined, Undefined, Undefined, Undefined, StringValue(S_unicode)),
    Record(S_smartPoster, Undefined, Undefined, Undefined, Undefined,
           MessageValue(<<N_url, N_text>>)) }

MessageInputs ==
  {<<r>> : r \in FieldPool \cup PosterPool} \cup SeqsUpTo(SmallPool, MaxRecords)

TypeChars == {116, 101, 120, 58}
TypeInputs ==
  standardTypes \cup {S_external, S_nodomain, S_colonType, S_domainColon}
    \cup SeqsUpTo(TypeChars, MaxTypeLen)

SampleBytes == {0, 1, 16, 171, 255}
Buffers == SeqsUpTo(SampleBytes, MaxBytes) \cup {<<b>> : b \in 0..255}
MediaTypes == {<<>>, S_textPlain}

\* "0", "1", "9", "a", "f", "A", "E", "F"
SampleDigits == {48, 49, 57, 97, 102, 65, 69, 70}
HexInputs ==
  { p \o d : p \in {<<>>, S_0x}, d \in SeqsUpTo(SampleDigits, MaxHexLen) }
    \cup {S_0xF, S_0xFF0, S_0xABCDE, S_0xaBcDeF, S_0xHello}

(***************************************************************************)
(* The parts of the state a run leaves alone: a run exercises the          *)
(* utilities, the add-record form, decodeRecord or the record service.     *)
(***************************************************************************)
\* the refs of AddRecordForm as their declarations initialise them
FormDefaults ==
  [recordType |-> S_text, externalTypeString |-> <<>>, smartPosterUrl |-> <<>>,
   mediaType |-> <<>>, id |-> <<>>, encoding |-> S_utf8, lang |-> S_en,
   textData |-> <<>>, fileData |-> Null, fileArrayBuffer |-> Null]

UtilIdle ==
  /\ records = <<>> /\ totalSize = 0 /\ recordType = <<>> /\ isExternal = FALSE
  /\ buffer = <<>> /\ mediaType = <<>> /\ base64 = <<>> /\ base64V2 = <<>>
  /\ hexString = <<>> /\ hexBuffer = <<>> /\ hexBufferV2 = <<>>

FormIdle ==
  /\ form = FormDefaults /\ isMimeTextBasedLogic = FALSE /\ payload = Undefined
  /\ emitted = <<>> /\ alerts = <<>>

DecodeIdle == ndefRecord = Undefined /\ decoded = Undefined

NoOp == [op |-> "none", session |-> 0, event |-> 0]

ScanIdle ==
  /\ scanAbortController = 0 /\ continuousScan = TRUE
  /\ sessions = <<>> /\ lastOp = NoOp /\ opCount = 0

TagIdle ==
  /\ scannedTag = [uuid |-> "", records |-> <<>>] /\ showAddForm = FALSE
  /\ index = 0 /\ status = [reading |-> FALSE, writing |-> FALSE]
  /\ warnings = <<>> /\ recordsToWrite = <<>>
  /\ ScanIdle

(***************************************************************************)
(* The state machine: a caller picks a utility and an input, and applies   *)
(* it; the hex round trip feeds the string of one call to the next.        *)
(***************************************************************************)
Init ==
  /\ FormIdle /\ DecodeIdle /\ TagIdle
  /\ totalSize = 0
  /\ isExternal = FALSE
  /\ base64 = <<>>
  /\ base64V2 = <<>>
  /\ hexBuffer = <<>>
  /\ hexBufferV2 = <<>>
  /\ \/ /\ pc = "estimate"
        /\ records \in MessageInputs
        /\ recordType = <<>> /\ buffer = <<>> /\ mediaType = <<>> /\ hexString = <<>>
     \/ /\ pc = "external"
        /\ recordType \in TypeInputs
        /\ records = <<>> /\ buffer = <<>> /\ mediaType = <<>> /\ hexString = <<>>
     \/ /\ pc = "base64"
        /\ buffer \in Buffers
        /\ mediaType \in MediaTypes
        /\ records = <<>> /\ recordType = <<>> /\ hexString = <<>>
     \/ /\ pc = "toHex"
        /\ buffer \in Buffers
        /\ records = <<>> /\ recordType = <<>> /\ mediaType = <<>> /\ hexString = <<>>
     \/ /\ pc = "fromHex"
        /\ hexString \in HexInputs
        /\ records = <<>> /\ recordType = <<>> /\ buffer = <<>> /\ mediaType = <<>>

Estimate ==
  /\ pc = "estimate"
  /\ totalSize' = estimateNdefMessageSize(records, FALSE)
  /\ pc' = "estimated"
  /\ UNCHANGED <<records, recordType, isExternal, buffer, mediaType, base64, base64V2,
                 hexString, hexBuffer, hexBufferV2>>
  /\ UNCHANGED <<formVars, alerts, decodeVars, tagVars>>

CheckExternal ==
  /\ pc = "external"
  /\ isExternal' = isNDEFRecordTypeExternal(recordType)
  /\ pc' = "externalChecked"
  /\ UNCHANGED <<records, totalSize, recordType, buffer, mediaType, base64, base64V2,
                 hexString, hexBuffer, hexBufferV2>>
  /\ UNCHANGED <<formVars, alerts, decodeVars, tagVars>>

ToBase64 ==
  /\ pc = "base64"
  /\ base64' = arrayBufferToBase64(buffer, mediaType)
  /\ base64V2' = arrayBufferToBase64V2(buffer, mediaType)
  /\ pc' = "base64Done"
  /\ UNCHANGED <<records, totalSize, recordType, isExternal, buffer, mediaType,
                 hexString, hexBuffer, hexBufferV2>>
  /\ UNCHANGED <<formVars, alerts, decodeVars, tagVars>>

ToHex ==
  /\ pc = "toHex"
  /\ hexString' = arrayBufferToHexString(buffer)
  /\ pc' = "hexEncoded"
  /\ UNCHANGED <<records, totalSize, recordType, isExternal, buffer, mediaType,
                 base64, base64V2, hexBuffer, hexBufferV2>>
  /\ UNCHANGED <<formVars, alerts, decodeVars, tagVars>>

FromHex ==
  /\ pc \in {"fromHex", "hexEncoded"}
  /\ hexBuffer' = hexStringToArrayBuffer(hexString)
  /\ hexBufferV2' = hexStringToArrayBufferV2(hexString)
  /\ pc' = IF pc = "fromHex" THEN "hexDecoded" ELSE "roundTripped"
  /\ UNCHANGED <<records, totalSize, recordType, isExternal, buffer, mediaType,
                 base64, base64V2, hexString>>
  /\ UNCHANGED <<formVars, alerts, decodeVars, tagVars>>

Next == Estimate \/ CheckExternal \/ ToBase64 \/ ToHex \/ FromHex

Spec == Init /\ [][Next]_vars

(***************************************************************************)
(* Properties of estimateNdefMessageSize.                                  *)
(***************************************************************************)
\* a message of exactly one record has been estimated
EstimatedOne == pc = "estimated" /\ Len(records) = 1

Range(f) == {f[i] : i \in DOMAIN f}

\* the record types the layout rule names a type field for
IsExternalName(t) == t # <<>> /\ t \notin standardTypes /\ 58 \in Range(t)
HasNamedType(r) == r.recordType \in standardTypes \/ IsExternalName(r.recordType)

\* the type field the layout rule names for each record type
NamedTypeField(r) ==
  CASE r.recordType = S_text -> S_T
    [] r.recordType = S_url -> S_U
    [] r.recordType = S_smartPoster -> S_Sp
    [] r.recordType = S_mime ->
         (IF r.mediaType.kind = "string" THEN r.mediaType.str ELSE <<>>)
    [] r.recordType = S_absoluteUrl ->
         (IF r.data.kind = "string" THEN r.data.str ELSE <<>>)
    [] r.recordType = S_unknown -> <<>>
    [] OTHER -> r.recordType

\* the payload length the layout rule names: 0 for absolute-url, status byte +
\* language + text for text, the nested total for a smart-poster message, and
\* otherwise the byte length of the buffer or the UTF-8 length of the string
NamedPayloadLength(r) ==
  CASE r.recordType = S_absoluteUrl -> 0
    [] r.recordType = S_text ->
         1 + textEncoderLength(OrDefault(r.lang, S_en))
           + (IF r.data.kind = "string" THEN textEncoderLength(r.data.str) ELSE 0)
    [] r.recordType = S_smartPoster /\ r.data.kind = "message" ->
         estimateNdefMessageSize(r.data.records, TRUE)
    [] OTHER ->
         (IF r.data.kind = "string" THEN textEncoderLength(r.data.str)
          ELSE IF r.data.kind = "ArrayBuffer" THEN Len(r.data.bytes)
          ELSE 0)

NamedLengthFieldSize(n) == IF n < 256 THEN 1 ELSE 4

NamedIdSize(r) ==
  IF r.id.kind = "string" /\ r.id.str # <<>> THEN 1 + textEncoderLength(r.id.str) ELSE 0

LayoutSize(r) ==
  1 + 1 + textEncoderLength(NamedTypeField(r))
    + NamedLengthFieldSize(NamedPayloadLength(r))
    + NamedIdSize(r) + NamedPayloadLength(r)

\* C1: every non-empty top-level record of a named type is counted as
\* 1 + 1 + type field + payload-length field (1 below 256, else 4) + id part +
\* payload, the type field being "T", "U", "Sp", the mediaType (mime), the
\* domain:name string (external), the URL (absolute-url) or empty (unknown).
C1_RecordLayout ==
  (EstimatedOne /\ records[1].recordType # S_empty /\ HasNamedType(records[1]))
    => totalSize = LayoutSize(records[1])

\* The layout rule of C1 for every record but a mime record without mediaType.
C1_RecordLayoutWithMediaType ==
  (EstimatedOne /\ records[1].recordType # S_empty /\ HasNamedType(records[1])
     /\ (records[1].recordType = S_mime => Truthy(records[1].mediaType)))
    => totalSize = LayoutSize(records[1])

IsPoster(r) == r.recordType = S_smartPoster /\ r.data.kind = "message"

\* C2: the payload of a smart-poster is what estimateNdefMessageSize gives for
\* its nested record list as a top-level message (nested records take the
\* 1-byte length field below 256 bytes of payload like any other record).
C2_NestedSizedAsTopLevel ==
  (EstimatedOne /\ IsPoster(records[1]))
    => LET nested == estimateNdefMessageSize(records[1].data.records, FALSE)
       IN totalSize = 1 + 1 + 2 + NamedLengthFieldSize(nested)
                        + NamedIdSize(records[1]) + nested

IsTextRecord(r) == r.recordType = S_text /\ r.data.kind = "string"

TextPayload(r) ==
  1 + textEncoderLength(OrDefault(r.lang, S_en)) + textEncoderLength(r.data.str)

\* the sum of C3: 1 + 1 + (1 or 4) + 1 + 1 + byteLength(lang) + byteLength(text)
TextRecordSum(r) ==
  1 + 1 + (IF TextPayload(r) < 256 THEN 1 ELSE 4) + 1 + 1
    + textEncoderLength(OrDefault(r.lang, S_en)) + textEncoderLength(r.data.str)

\* C3 as stated: every text record is counted as the sum above.
C3_TextRecordSize ==
  (EstimatedOne /\ IsTextRecord(records[1])) => totalSize = TextRecordSum(records[1])

\* C3: a text record without id is counted as 1 + 1 + (1 below 256 bytes of
\* payload, else 4) + 1 + 1 + byteLength(lang, "en" when unset) +
\* byteLength(text); an id adds 1 + byteLength(id).
C3_TextRecordSizeWithId ==
  (EstimatedOne /\ IsTextRecord(records[1]))
    => totalSize = TextRecordSum(records[1]) + NamedIdSize(records[1])

C3_LongTextWitness ==
  /\ EstimatedOne /\ IsTextRecord(records[1])
  /\ ~Truthy(records[1].id)
  /\ TextPayload(records[1]) = 256
  /\ totalSize = 7 + 256

\* C4: a one-record message whose record is of type empty is estimated as
\* exactly 1, whatever other fields the record carries.
C4_EmptyRecordIsOneByte ==
  (EstimatedOne /\ records[1].recordType = S_empty) => totalSize = 1

C4_LoadedEmptyRecordWitness ==
  /\ EstimatedOne /\ records[1].recordType = S_empty
  /\ Truthy(records[1].id) /\ Truthy(records[1].mediaType)
  /\ Truthy(records[1].encoding) /\ Truthy(records[1].lang)
  /\ Truthy(records[1].data)
  /\ totalSize = 1

RECURSIVE SumOfSingles(_, _)
SumOfSingles(rs, i) ==
  IF i > Len(rs) THEN 0
  ELSE estimateNdefMessageSize(<<rs[i]>>, FALSE) + SumOfSingles(rs, i + 1)

IndexPermutations(n) == {p \in [1..n -> 1..n] : \A i, j \in 1..n : p[i] = p[j] => i = j}

\* C5: the estimate of a list is the sum of the estimates of its records as
\* one-record lists; the empty list gives 0; every reordering gives the same.
C5_Additive ==
  pc = "estimated"
    => /\ totalSize = SumOfSingles(records, 1)
       /\ (records = <<>> => totalSize = 0)
       /\ \A p \in IndexPermutations(Len(records)) :
            estimateNdefMessageSize([i \in 1..Len(records) |-> records[p[i]]], FALSE)
              = totalSize

C5_TwoRecordsWitness ==
  /\ pc = "estimated" /\ Len(records) = 2
  /\ records[1].recordType = S_empty /\ records[2].recordType = S_text
  /\ totalSize = 1 + 12

IsAbsoluteUrlNoId(r) ==
  r.recordType = S_absoluteUrl /\ r.data.kind = "string" /\ r.data.str # <<>>
    /\ ~Truthy(r.id)

C7_HexRoundTrip ==
  pc = "roundTripped" => (hexBuffer = buffer /\ hexBufferV2 = buffer)

C7_OneSmallByteWitness ==
  /\ pc = "roundTripped"
  /\ Len(buffer) = 1 /\ buffer[1] < 16
  /\ Len(hexString) = 2
  /\ hexBuffer = buffer

\* the digits of a hex string: what follows an optional "0x"
DigitsOf(s) == IF Len(s) >= 2 /\ s[1] = 48 /\ s[2] = 120 THEN SubSeq(s, 3, Len(s)) ELSE s

\* a string with its letters A-F in lower case
LowerCase(s) == [i \in 1..Len(s) |-> IF s[i] >= 65 /\ s[i] <= 70 THEN s[i] + 32 ELSE s[i]]

\* what C8 requires of the bytes decoded from the string s
OddHexRule(s, bytes) ==
  /\ Len(bytes) = (Len(DigitsOf(s)) + 1) \div 2
  /\ (s = S_0xF => bytes = <<15>>)
  /\ (s = S_0xFF0 => bytes = <<255, 0>>)
  /\ (s = S_0xABCDE => bytes = <<171, 205, 224>>)

\* C8: a hex string of n digits is decoded to ceil(n/2) bytes, "0xF" to the byte
\* 0x0F, "0xFF0" to FF 00 and "0xABCDE" to AB CD E0; the prefix is optional and
\* the case of the digits does not matter.
C8_OddHexPadding ==
  pc = "hexDecoded"
    => /\ OddHexRule(hexString, hexBuffer)
       /\ hexBuffer = hexStringToArrayBuffer(DigitsOf(hexString))
       /\ hexBuffer = hexStringToArrayBuffer(LowerCase(hexString))

\* The second copy of the decoder meets the rule of C8.
C8_OddHexPaddingV2 ==
  pc = "hexDecoded"
    => /\ OddHexRule(hexString, hexBufferV2)
       /\ hexBufferV2 = hexStringToArrayBufferV2(DigitsOf(hexString))
       /\ hexBufferV2 = hexStringToArrayBufferV2(LowerCase(hexString))

(***************************************************************************)
(* Properties of arrayBufferToBase64.                                      *)
(***************************************************************************)
\* the 8 bits of a byte, most significant first
BitsOfByte(b) == [k \in 1..8 |-> (b \div (2 ^ (8 - k))) % 2]

\* the bits of a byte sequence
BitsOf(bytes) == [k \in 1..(8 * Len(bytes)) |-> BitsOfByte(bytes[(k + 7) \div 8])[((k - 1) % 8) + 1]]

\* bit k of a bit sequence, 0 past its end
BitOrZero(bits, k) == IF k <= Len(bits) THEN bits[k] ELSE 0

\* the value of the j-th group of six bits
Sextet(bits, j) ==
  32 * BitOrZero(bits, 6 * j - 5) + 16 * BitOrZero(bits, 6 * j - 4)
    + 8 * BitOrZero(bits, 6 * j - 3) + 4 * BitOrZero(bits, 6 * j - 2)
    + 2 * BitOrZero(bits, 6 * j - 1) + BitOrZero(bits, 6 * j)

\* the character of a six-bit value in the standard alphabet
StandardChar(v) ==
  IF v < 26 THEN 65 + v
  ELSE IF v < 52 THEN 97 + (v - 26)
  ELSE IF v < 62 THEN 48 + (v - 52)
  ELSE IF v = 62 THEN 43 ELSE 47

\* the standard, '='-padded Base64 text of a byte sequence (RFC 4648)
StandardBase64(bytes) ==
  LET bits == BitsOf(bytes)
      n == (8 * Len(bytes) + 5) \div 6
      total == 4 * ((Len(bytes) + 2) \div 3)
  IN [j \in 1..total |-> IF j <= n THEN StandardChar(Sextet(bits, j)) ELSE 61]

\* the six-bit value of a character of the standard alphabet
StandardValue(c) ==
  IF c >= 65 /\ c <= 90 THEN c - 65
  ELSE IF c >= 97 /\ c <= 122 THEN c - 97 + 26
  ELSE IF c >= 48 /\ c <= 57 THEN c - 48 + 52
  ELSE IF c = 43 THEN 62 ELSE 63

\* bit k (1..6, most significant first) of a six-bit value
BitOfSextet(v, k) == (v \div (2 ^ (6 - k))) % 2

\* the bytes a padded Base64 text decodes to
Base64Decode(text) ==
  LET chars == SelectSeq(text, LAMBDA c : c # 61)
      bit(k) == BitOfSextet(StandardValue(chars[(k + 5) \div 6]), ((k - 1) % 6) + 1)
  IN [m \in 1..((6 * Len(chars)) \div 8) |->
        128 * bit(8 * m - 7) + 64 * bit(8 * m - 6) + 32 * bit(8 * m - 5)
          + 16 * bit(8 * m - 4) + 8 * bit(8 * m - 3) + 4 * bit(8 * m - 2)
          + 2 * bit(8 * m - 1) + bit(8 * m)]

DataUrlPrefix(mt) == <<100, 97, 116, 97, 58>> \o mt \o <<59, 98, 97, 115, 101, 54, 52, 44>>

AfterPrefix(text, mt) == SubSeq(text, Len(DataUrlPrefix(mt)) + 1, Len(text))

C10_ExternalIffColon ==
  pc = "externalChecked"
    => /\ isExternal = ( /\ Len(recordType) > 0
                         /\ \A t \in {S_empty, S_text, S_url, S_smartPoster,
                                      S_absoluteUrl, S_mime, S_unknown} : recordType # t
                         /\ 58 \in Range(recordType) )
       /\ (recordType = S_external => isExternal)
       /\ (recordType \in {S_text, S_nodomain, <<>>} => ~isExternal)

C10_ExternalWitness ==
  pc = "externalChecked" /\ recordType = S_external /\ isExternal

(***************************************************************************)
(* AddRecordForm (components/AddRecordForm.vue): prepareRecordPayload and  *)
(* handleSubmit; a second copy of the form script is kept in               *)
(* components/NDEFRecord.vue.                                              *)
(***************************************************************************)
S_externalType == <<101, 120, 116, 101, 114, 110, 97, 108>>
S_textSlash == <<116, 101, 120, 116, 47>>
S_applicationJson == <<97, 112, 112, 108, 105, 99, 97, 116, 105, 111, 110, 47, 106, 115, 111, 110>>
S_applicationXml == <<97, 112, 112, 108, 105, 99, 97, 116, 105, 111, 110, 47, 120, 109, 108>>
S_textVcard == <<116, 101, 120, 116, 47, 118, 99, 97, 114, 100>>
S_utf16 == <<117, 116, 102, 45, 49, 54>>
S_aColonB == <<97, 58, 98>>
S_0xZZ == <<48, 120, 90, 90>>
S_httpsColon == <<104, 116, 116, 112, 115, 58>>
S_mailto == <<109, 97, 105, 108, 116, 111, 58, 97>>

\* a File chosen in the file input, with the bytes its arrayBuffer() resolves to
FileValue(b) == [kind |-> "File", bytes |-> b]

\* if (s) x = s: the string when it is non-empty, else the member stays absent
WhenNonEmpty(s) == IF s # <<>> THEN StringValue(s) ELSE Undefined

\* the form of OrElse that keeps an empty string
OrElse_keepsEmpty(s, dflt) == s

\* s || dflt for a string ref
OrElse(s, dflt) == IF s # <<>> THEN s ELSE dflt

isTextBasedMime(f) ==
  \/ StartsWith(f.mediaType, S_textSlash)
  \/ f.mediaType = S_applicationJson
  \/ f.mediaType = S_applicationXml
  \/ f.mediaType = S_textVcard

\* { recordType: "url", data: currentSmartPosterUrl }
nestedUrlRecord(f) ==
  Record(S_url, Undefined, Undefined, Undefined, Undefined, StringValue(f.smartPosterUrl))

\* the optional title pushed behind the url sub-record
nestedTextRecord(f) ==
  Record(S_text, Undefined, Undefined, StringValue(OrElse(f.encoding, S_utf8)),
         StringValue(OrElse(f.lang, S_en)), StringValue(f.textData))

\* the form of nestedRecords that pushes the title even when it is empty
nestedRecords_alwaysTitle(f) == <<nestedUrlRecord(f), nestedTextRecord(f)>>

nestedRecords(f) ==
  IF f.textData # <<>> THEN <<nestedUrlRecord(f), nestedTextRecord(f)>>
  ELSE <<nestedUrlRecord(f)>>

\* the form of fileOrText that prefers a non-empty text payload
fileOrText_textFirst(f, fromText) ==
  IF f.textData # <<>> \/ ~Truthy(f.fileArrayBuffer) THEN fromText
  ELSE ArrayBufferValue(f.fileArrayBuffer.bytes)

\* the byte payload when there is one, else what the text payload gives
fileOrText(f, fromText) ==
  IF Truthy(f.fileArrayBuffer) THEN ArrayBufferValue(f.fileArrayBuffer.bytes) ELSE fromText

\* the encoding member of the record built, by record type
payloadEncoding(f, mimeTextBased) ==
  CASE f.recordType = S_text -> StringValue(OrElse(f.encoding, S_utf8))
    [] f.recordType = S_mime ->
         IF ~Truthy(f.fileArrayBuffer) /\ mimeTextBased THEN WhenNonEmpty(f.encoding)
         ELSE Undefined
    [] f.recordType = S_externalType ->
         IF ~Truthy(f.fileArrayBuffer) THEN WhenNonEmpty(f.encoding) ELSE Undefined
    [] f.recordType = S_unknown ->
         IF ~Truthy(f.fileArrayBuffer) /\ ~StartsWith(f.textData, S_0x)
         THEN WhenNonEmpty(f.encoding) ELSE Undefined
    [] OTHER -> Undefined

\* the data member of the record built, by record type
payloadData(f) ==
  CASE f.recordType \in {S_text, S_url, S_absoluteUrl} -> StringValue(f.textData)
    [] f.recordType \in {S_mime, S_externalType} -> fileOrText(f, StringValue(f.textData))
    [] f.recordType = S_smartPoster -> MessageValue(nestedRecords(f))
    [] f.recordType = S_unknown ->
         fileOrText(f, IF StartsWith(f.textData, S_0x)
                       THEN ArrayBufferValue(hexStringToArrayBuffer(f.textData))
                       ELSE StringValue(f.textData))
    [] OTHER -> Undefined

prepareRecordPayload(f, mimeTextBased) ==
  Record(IF f.recordType = S_externalType THEN f.externalTypeString ELSE f.recordType,
         IF f.recordType = S_mime THEN StringValue(f.mediaType) ELSE Undefined,
         WhenNonEmpty(f.id),
         payloadEncoding(f, mimeTextBased),
         IF f.recordType = S_text THEN StringValue(OrElse(f.lang, S_en)) ELSE Undefined,
         payloadData(f))

\* /^[a-zA-Z0-9.-]+:[a-zA-Z0-9.-_]+$/ : the class before the colon
IsAlnum(c) == (c >= 97 /\ c <= 122) \/ (c >= 65 /\ c <= 90) \/ (c >= 48 /\ c <= 57)
InDomainClass(c) == IsAlnum(c) \/ c = 46 \/ c = 45
\* the class behind the colon: ".-_" is the range from "." (46) to "_" (95)
InNameClass(c) == IsAlnum(c) \/ (c >= 46 /\ c <= 95)

externalTypeRegexTest(s) ==
  \E k \in 2..(Len(s) - 1) :
    /\ s[k] = 58
    /\ \A i \in 1..(k - 1) : InDomainClass(s[i])
    /\ \A i \in (k + 1)..Len(s) : InNameClass(s[i])

\* new URL(s) without a base: the input is trimmed, must start with a scheme, and a
\* special scheme (http, https, ftp, ws, wss) must be followed by a host
IsAsciiAlpha(c) == (c >= 97 /\ c <= 122) \/ (c >= 65 /\ c <= 90)
IsSchemeChar(c) == IsAlnum(c) \/ c \in {43, 45, 46}
ToLowerAscii(s) == [i \in 1..Len(s) |-> IF s[i] >= 65 /\ s[i] <= 90 THEN s[i] + 32 ELSE s[i]]

TrimStart(s) ==
  IF \E i \in 1..Len(s) : s[i] > 32
  THEN SubSeq(s, CHOOSE i \in 1..Len(s) : s[i] > 32 /\ \A j \in 1..(i - 1) : s[j] <= 32, Len(s))
  ELSE <<>>
TrimEnd(s) ==
  IF \E i \in 1..Len(s) : s[i] > 32
  THEN SubSeq(s, 1, CHOOSE i \in 1..Len(s) : s[i] > 32 /\ \A j \in (i + 1)..Len(s) : s[j] <= 32)
  ELSE <<>>

\* the index of the colon that ends the scheme, 0 when the input has no scheme
SchemeEnd(s) ==
  IF \E k \in 2..Len(s) :
       s[k] = 58 /\ IsAsciiAlpha(s[1]) /\ \A i \in 2..(k - 1) : IsSchemeChar(s[i])
  THEN CHOOSE k \in 2..Len(s) : s[k] = 58 /\ \A i \in 2..(k - 1) : IsSchemeChar(s[i])
  ELSE 0

SpecialSchemes ==
  {<<104, 116, 116, 112>>, <<104, 116, 116, 112, 115>>, <<102, 116, 112>>,
   <<119, 115>>, <<119, 115, 115>>}

\* what follows the scheme, without the slashes and backslashes in front of the host
AfterSlashes(s) ==
  IF \E i \in 1..Len(s) : s[i] \notin {47, 92}
  THEN SubSeq(s, CHOOSE i \in 1..Len(s) : s[i] \notin {47, 92}
                                        /\ \A j \in 1..(i - 1) : s[j] \in {47, 92}, Len(s))
  ELSE <<>>

\* the host: up to the first of / \ ? #
HostOf(s) ==
  IF \E i \in 1..Len(s) : s[i] \in {47, 92, 63, 35}
  THEN SubSeq(s, 1, (CHOOSE i \in 1..Len(s) : s[i] \in {47, 92, 63, 35}
                                        /\ \A j \in 1..(i - 1) : s[j] \notin {47, 92, 63, 35}) - 1)
  ELSE s

IsHostChar(c) == IsAlnum(c) \/ c \in {45, 46, 95}

URLParses(input) ==
  LET s == TrimEnd(TrimStart(input))
      k == SchemeEnd(s)
  IN /\ k # 0
     /\ \/ ToLowerAscii(SubSeq(s, 1, k - 1)) \notin SpecialSchemes
        \/ LET host == HostOf(AfterSlashes(SubSeq(s, k + 1, Len(s))))
           IN host # <<>> /\ \A i \in 1..Len(host) : IsHostChar(host[i])

IsHexDigit(c) == (c >= 48 /\ c <= 57) \/ (c >= 97 /\ c <= 102) \/ (c >= 65 /\ c <= 70)
\* /^[0-9a-fA-F]+$/
hexRegexTest(s) == s # <<>> /\ \A i \in 1..Len(s) : IsHexDigit(s[i])

NoAlert == ""

\* the validations of handleSubmit in AddRecordForm.vue: the alert shown, if any
handleSubmitAlert(f) ==
  IF f.recordType = S_mime /\ f.mediaType = <<>>
  THEN "MIME Type is required for 'mime' record type."
  ELSE IF f.recordType = S_externalType /\ f.externalTypeString = <<>>
  THEN "External Record Type Domain:Name is required."
  ELSE IF f.recordType = S_externalType /\ ~externalTypeRegexTest(f.externalTypeString)
  THEN "External Record Type must be in 'domain:type' format (e.g., 'example.com:mytype')."
  ELSE IF f.recordType = S_smartPoster /\ f.smartPosterUrl = <<>>
  THEN "Smart Poster URL is required."
  ELSE NoAlert

\* the validations of handleSubmit in the copy kept in NDEFRecord.vue
handleSubmitAlertInline(f) ==
  LET noPayload == ~Truthy(f.fileData) /\ f.textData = <<>>
  IN CASE f.recordType = S_mime ->
            IF f.mediaType = <<>> THEN "MIME Type is required for 'mime' record type."
            ELSE IF noPayload THEN "File or text data is required for 'mime' record type."
            ELSE NoAlert
       [] f.recordType = S_externalType ->
            IF f.externalTypeString = <<>>
            THEN "External Record Type Domain:Name is required."
            ELSE IF ~externalTypeRegexTest(f.externalTypeString)
            THEN "External Record Type must be in 'domain:type' format (e.g., 'example.com:mytype')."
            ELSE IF noPayload
            THEN "Payload data (text or file) is required for 'external' record type."
            ELSE NoAlert
       [] f.recordType = S_smartPoster ->
            IF f.smartPosterUrl = <<>> THEN "Smart Poster URL is required."
            ELSE IF ~URLParses(f.smartPosterUrl) THEN "Invalid Smart Poster URL format."
            ELSE NoAlert
       [] f.recordType \in {S_text, S_url, S_absoluteUrl} ->
            IF f.textData = <<>> THEN "Payload data is required for this record type."
            ELSE NoAlert
       [] f.recordType = S_unknown ->
            IF noPayload
            THEN "Payload data (text or file) is required for 'unknown' record type."
            ELSE IF /\ f.textData # <<>> /\ StartsWith(f.textData, S_0x)
                    /\ (Len(f.textData) % 2 # 0
                        \/ ~hexRegexTest(SubSeq(f.textData, 3, Len(f.textData))))
            THEN "Hexadecimal payload for 'unknown' type must be valid hex (e.g., 0x010A2B) and have an even number of digits after '0x'."
            ELSE NoAlert
       [] OTHER -> NoAlert

\* parseInt(hex.substring(i, i + 2), 16) where the substring may be one digit long
parseIntPair(byteString) ==
  IF Len(byteString) = 2 THEN ToUint8(parseInt16(byteString))
  ELSE IF HexDigitValue(byteString[1]) < 0 THEN 0 ELSE HexDigitValue(byteString[1])

\* hexStringToArrayBuffer of the copy kept in NDEFRecord.vue: at least one byte, and
\* an odd last digit is parsed alone
hexStringToArrayBufferInline(s) ==
  LET hex == stripHexPrefix(s)
      n == IF Len(hex) = 0 THEN 1 ELSE (Len(hex) + 1) \div 2
  IN [j \in 1..n |->
        IF 2 * j - 1 > Len(hex) THEN 0
        ELSE parseIntPair(SubSeq(hex, 2 * j - 1,
                                 IF 2 * j <= Len(hex) THEN 2 * j ELSE Len(hex)))]

\* the record the copy kept in NDEFRecord.vue builds: it differs from
\* prepareRecordPayload in the title's encoding and in its hex conversion
buildRecordInline(f) ==
  LET r == prepareRecordPayload(f, isTextBasedMime(f))
  IN CASE f.recordType = S_smartPoster /\ f.textData # <<>> ->
            [r EXCEPT !.data = MessageValue(
               <<nestedUrlRecord(f),
                 [nestedTextRecord(f) EXCEPT !.encoding = StringValue(S_utf8)]>>)]
       [] /\ f.recordType = S_unknown /\ ~Truthy(f.fileArrayBuffer)
          /\ StartsWith(f.textData, S_0x) ->
            [r EXCEPT !.data = ArrayBufferValue(hexStringToArrayBufferInline(f.textData))]
       [] OTHER -> r

(***************************************************************************)
(* The add-record form: the values its inputs may hold when the record is  *)
(* built or the form is submitted.                                         *)
(***************************************************************************)
Form(t, ext, url, mt, id, enc, lang, text, file) ==
  [recordType |-> t, externalTypeString |-> ext, smartPosterUrl |-> url,
   mediaType |-> mt, id |-> id, encoding |-> enc, lang |-> lang,
   textData |-> text, fileData |-> file[1], fileArrayBuffer |-> file[2]]

FormTypes ==
  {S_text, S_url, S_absoluteUrl, S_mime, S_smartPoster, S_externalType, S_unknown, S_empty}

\* no file; an empty file; a file whose arrayBuffer() is still pending; a loaded file
NoFile == <<Null, Null>>
LoadedFile == <<FileValue(<<1, 171>>), ArrayBufferValue(<<1, 171>>)>>
FileStates ==
  {NoFile, <<FileValue(<<>>), ArrayBufferValue(<<>>)>>, <<FileValue(<<1, 171>>), Null>>,
   LoadedFile}

TextInputs == {<<>>, S_Hello, S_0x, S_0xF, S_0xaBcDeF, S_0xZZ}
UrlInputs == {<<>>, S_httpsUrl, S_Hello, S_httpsColon, S_mailto}
FormMediaTypes == {<<>>, S_textPlain, S_imagePng}
FormEncodings == {<<>>, S_utf8, S_utf16}

\* the characters of the external type strings: a : - _ and a space
ExtChars == {97, 58, 45, 95, 32}
ExternalTypeInputs == SeqsUpTo(ExtChars, MaxExtLen) \cup {S_external}

GeneralForms ==
  UNION {
    {Form(t, ext, url, mt, id, enc, lang, text, file) :
       ext \in (IF t = S_externalType THEN {<<>>, S_external} ELSE {<<>>}),
       url \in (IF t = S_smartPoster THEN UrlInputs ELSE {<<>>}),
       mt \in FormMediaTypes, id \in {<<>>, S_myId}, enc \in FormEncodings,
       lang \in {<<>>, S_enUS}, text \in TextInputs, file \in FileStates} :
    t \in FormTypes}

ExternalForms ==
  {Form(S_externalType, ext, <<>>, <<>>, <<>>, S_utf8, <<>>, text, file) :
     ext \in ExternalTypeInputs, text \in {<<>>, S_Hello}, file \in {NoFile, LoadedFile}}

\* every input filled in, whatever the record type selected
LoadedForms ==
  {Form(t, S_external, S_httpsUrl, S_textPlain, S_myId, S_utf16, S_enUS, S_Hello, file) :
     t \in FormTypes, file \in {NoFile, LoadedFile}}

FormInputs == GeneralForms \cup ExternalForms \cup LoadedForms

InitForm ==
  /\ UtilIdle /\ DecodeIdle /\ TagIdle
  /\ payload = Undefined /\ emitted = <<>> /\ alerts = <<>>
  /\ form \in FormInputs
  /\ \/ pc = "prepare" /\ isMimeTextBasedLogic \in BOOLEAN
     \/ pc = "submit" /\ isMimeTextBasedLogic = FALSE

\* a direct call of prepareRecordPayload, as the unit tests make it
PreparePayload ==
  /\ pc = "prepare"
  /\ payload' = prepareRecordPayload(form, isMimeTextBasedLogic)
  /\ pc' = "prepared"
  /\ UNCHANGED <<form, isMimeTextBasedLogic, emitted, alerts, utilVars, decodeVars, tagVars>>

\* handleSubmit of AddRecordForm.vue: validate, build, emit, reset the form
HandleSubmit ==
  /\ pc = "submit"
  /\ IF handleSubmitAlert(form) # NoAlert
     THEN /\ alerts' = Append(alerts, handleSubmitAlert(form))
          /\ UNCHANGED <<form, emitted>>
     ELSE /\ emitted' = Append(emitted, prepareRecordPayload(form, isTextBasedMime(form)))
          /\ form' = FormDefaults
          /\ UNCHANGED alerts
  /\ pc' = "submitted"
  /\ UNCHANGED <<isMimeTextBasedLogic, payload, utilVars, decodeVars, tagVars>>

\* handleSubmit of the form script kept in NDEFRecord.vue
HandleSubmitInline ==
  /\ pc = "submit"
  /\ IF handleSubmitAlertInline(form) # NoAlert
     THEN /\ alerts' = Append(alerts, handleSubmitAlertInline(form))
          /\ UNCHANGED <<form, emitted>>
     ELSE /\ emitted' = Append(emitted, buildRecordInline(form))
          /\ form' = FormDefaults
          /\ UNCHANGED alerts
  /\ pc' = "submittedInline"
  /\ UNCHANGED <<isMimeTextBasedLogic, payload, utilVars, decodeVars, tagVars>>

NextForm == PreparePayload \/ HandleSubmit \/ HandleSubmitInline

SpecForm == InitForm /\ [][NextForm]_vars

(***************************************************************************)
(* Properties of prepareRecordPayload.                                     *)
(***************************************************************************)
Prepared == pc = "prepared"

\* a record init with exactly the members recordType and data
UrlSubRecord(url) ==
  [recordType |-> S_url, mediaType |-> Undefined, id |-> Undefined,
   encoding |-> Undefined, lang |-> Undefined, data |-> StringValue(url)]

\* a record init with exactly the members recordType, data, lang and encoding
TextSubRecord(title, lang, enc) ==
  [recordType |-> S_text, mediaType |-> Undefined, id |-> Undefined,
   encoding |-> StringValue(enc), lang |-> StringValue(lang), data |-> StringValue(title)]

GivenOr(s, dflt) == IF s = <<>> THEN dflt ELSE s

\* the smart-poster record built has the nested message the title decides, the title
\* sub-record carrying encoding titleEncoding, and no lang or encoding of its own
PosterShape(titleEncoding) ==
  /\ payload.recordType = S_smartPoster
  /\ payload.data.kind = "message"
  /\ payload.data.records =
       IF form.textData # <<>>
       THEN <<UrlSubRecord(form.smartPosterUrl),
              TextSubRecord(form.textData, GivenOr(form.lang, S_en), titleEncoding)>>
       ELSE <<UrlSubRecord(form.smartPosterUrl)>>
  /\ payload.lang = Undefined
  /\ payload.encoding = Undefined

\* C11 as stated: a smart-poster record built from a URL and a non-empty title nests
\* exactly the url sub-record and then the text sub-record {title, given lang or en,
\* encoding utf-8}; with an empty title it nests the url sub-record alone; the outer
\* record carries no lang and no encoding.
C11_PosterTitleUtf8 ==
  (Prepared /\ form.recordType = S_smartPoster) => PosterShape(S_utf8)

\* C11 amended: the same, except that the title sub-record carries the given encoding,
\* and utf-8 only when none is given.
C11_PosterTitleGivenEncoding ==
  (Prepared /\ form.recordType = S_smartPoster)
    => PosterShape(GivenOr(form.encoding, S_utf8))

C11_PosterTitleWitness ==
  /\ Prepared /\ form.recordType = S_smartPoster
  /\ form.smartPosterUrl = S_httpsUrl /\ form.textData = S_Hello
  /\ form.encoding = S_utf16 /\ form.lang = <<>>
  /\ Len(payload.data.records) = 2
  /\ payload.data.records[2].encoding = StringValue(S_utf16)
  /\ payload.data.records[2].lang = StringValue(S_en)

IsByteOrTextType == form.recordType \in {S_mime, S_externalType, S_unknown}
HasBytePayload == form.fileArrayBuffer # Null
IsHexText == form.recordType = S_unknown /\ StartsWith(form.textData, S_0x)
IsEvenHex(digits) ==
  Len(digits) % 2 = 0 /\ \A i \in 1..Len(digits) : IsHexDigit(digits[i])

\* C12: for mime, external and unknown the record built holds the byte payload
\* whenever there is one and the text payload only otherwise; an unknown record's text
\* starting with 0x is held as its hex-decoded bytes; the record has an encoding only
\* when it holds the text as text (for mime only when flagged text-like, for unknown
\* not when the text is hex), never when it holds the bytes.
C12_BytesBeforeText ==
  (Prepared /\ IsByteOrTextType) =>
    /\ HasBytePayload =>
         /\ payload.data = ArrayBufferValue(form.fileArrayBuffer.bytes)
         /\ payload.encoding = Undefined
    /\ (~HasBytePayload /\ IsHexText) =>
         /\ payload.data.kind = "ArrayBuffer"
         /\ payload.data.bytes = hexStringToArrayBuffer(form.textData)
         /\ IsEvenHex(DigitsOf(form.textData)) =>
              arrayBufferToHexString(payload.data.bytes) = LowerCase(DigitsOf(form.textData))
         /\ payload.encoding = Undefined
    /\ (~HasBytePayload /\ ~IsHexText) => payload.data = StringValue(form.textData)
    /\ payload.encoding # Undefined =>
         /\ payload.data = StringValue(form.textData)
         /\ payload.encoding = StringValue(form.encoding)
         /\ form.encoding # <<>>
         /\ form.recordType = S_mime => isMimeTextBasedLogic

C12_HexTextWitness ==
  /\ Prepared /\ form.recordType = S_unknown /\ ~HasBytePayload
  /\ form.textData = S_0xaBcDeF /\ form.encoding = S_utf8
  /\ payload.data = ArrayBufferValue(<<171, 205, 239>>)
  /\ payload.encoding = Undefined

\* C13: a text record built from empty encoding and lang inputs has encoding utf-8 and
\* lang en, non-empty inputs are kept as given; a url or absolute-url record has
\* neither an encoding nor a lang.
C13_TextDefaults ==
  /\ (Prepared /\ form.recordType = S_text) =>
       /\ payload.encoding = StringValue(IF form.encoding = <<>> THEN S_utf8 ELSE form.encoding)
       /\ payload.lang = StringValue(IF form.lang = <<>> THEN S_en ELSE form.lang)
  /\ (Prepared /\ form.recordType \in {S_url, S_absoluteUrl}) =>
       payload.encoding = Undefined /\ payload.lang = Undefined

C13_EmptyInputsWitness ==
  /\ Prepared /\ form.recordType = S_text /\ form.textData = S_Hello
  /\ form.encoding = <<>> /\ form.lang = <<>>
  /\ payload.encoding = StringValue(S_utf8) /\ payload.lang = StringValue(S_en)

(***************************************************************************)
(* Properties of handleSubmit.                                             *)
(***************************************************************************)
\* the form lacks a field its record type requires
RequiredFieldMissing(f) ==
  \/ f.recordType \in {S_text, S_url, S_absoluteUrl} /\ f.textData = <<>>
  \/ f.recordType = S_mime /\ f.mediaType = <<>>
  \/ f.recordType = S_smartPoster /\ f.smartPosterUrl = <<>>
  \/ /\ f.recordType \in {S_mime, S_externalType, S_unknown}
     /\ f.fileData = Null /\ f.fileArrayBuffer = Null /\ f.textData = <<>>

\* the submission ended in one more alert and no add-record event
Rejected == Len(alerts') = Len(alerts) + 1 /\ emitted' = emitted

\* C15: submitting the form of AddRecordForm.vue with a required field missing (empty
\* text payload for text, url, absolute-url; empty mediaType for mime; empty URL for
\* smart-poster; neither byte nor text payload for mime, external, unknown) shows an
\* alert and emits no add-record event.
C15_MissingFieldRejected ==
  [][(pc = "submit" /\ pc' = "submitted" /\ RequiredFieldMissing(form)) => Rejected]_vars

\* the same statement for the form script kept in NDEFRecord.vue
C15_MissingFieldRejectedInline ==
  [][(pc = "submit" /\ pc' = "submittedInline" /\ RequiredFieldMissing(form))
       => Rejected]_vars

\* domain:name: exactly one colon, with something on both sides of it
DomainNameShape(s) ==
  /\ Cardinality({i \in 1..Len(s) : s[i] = 58}) = 1
  /\ s[1] # 58 /\ s[Len(s)] # 58

\* a value is filled in, and it is malformed
MalformedValue(f) ==
  \/ /\ f.recordType = S_externalType /\ f.externalTypeString # <<>>
     /\ ~DomainNameShape(f.externalTypeString)
  \/ /\ f.recordType = S_smartPoster /\ f.smartPosterUrl # <<>>
     /\ ~URLParses(f.smartPosterUrl)

\* C16: submitting the form of AddRecordForm.vue with an external type string that is
\* not of the domain:name shape (exactly one colon, non-empty on both sides), or with
\* a smart-poster URL that does not parse as an absolute URL, shows an alert and
\* emits no add-record event.
C16_MalformedRejected ==
  [][(pc = "submit" /\ pc' = "submitted" /\ MalformedValue(form)) => Rejected]_vars

\* the same statement for the form script kept in NDEFRecord.vue
C16_MalformedRejectedInline ==
  [][(pc = "submit" /\ pc' = "submittedInline" /\ MalformedValue(form)) => Rejected]_vars

\* the same statement for the form script kept in NDEFRecord.vue, external types apart
C16_MalformedUrlRejectedInline ==
  [][(pc = "submit" /\ pc' = "submittedInline" /\ MalformedValue(form)
       /\ form.recordType = S_smartPoster) => Rejected]_vars

(***************************************************************************)
(* TextEncoder and TextDecoder, as decodeRecord and the record service use *)
(* them.                                                                   *)
(***************************************************************************)
S_NoData == <<78, 111, 32, 100, 97, 116, 97, 32, 105, 110, 32, 114, 101, 99, 111, 114, 100>>
S_utf8Upper == <<85, 84, 70, 45, 56>>
S_utf8Short == <<117, 116, 102, 56>>
S_utf16le == <<117, 116, 102, 45, 49, 54, 108, 101>>
S_utf16be == <<117, 116, 102, 45, 49, 54, 98, 101>>
S_bogus == <<98, 111, 103, 117, 115>>

\* U+FFFD, which a decoder puts in place of a malformed sequence
Replacement == 65533
\* U+FEFF, the byte order mark a decoder drops at the start
ByteOrderMark == 65279

\* the bytes TextEncoder.encode gives for the code unit at position i of s
utf8EncodeAt(s, i) ==
  LET c == s[i]
  IN IF c < 128 THEN <<c>>
     ELSE IF c < 2048 THEN <<192 + (c \div 64), 128 + (c % 64)>>
     ELSE IF IsHighSurrogate(c) /\ i < Len(s) /\ IsLowSurrogate(s[i + 1])
     THEN LET cp == 65536 + (c - 55296) * 1024 + (s[i + 1] - 56320)
          IN <<240 + (cp \div 262144), 128 + ((cp \div 4096) % 64),
               128 + ((cp \div 64) % 64), 128 + (cp % 64)>>
     ELSE IF IsLowSurrogate(c) /\ i > 1 /\ IsHighSurrogate(s[i - 1]) THEN <<>>
     ELSE IF IsHighSurrogate(c) \/ IsLowSurrogate(c) THEN <<239, 191, 189>>
     ELSE <<224 + (c \div 4096), 128 + ((c \div 64) % 64), 128 + (c % 64)>>

RECURSIVE utf8EncodeFrom(_, _)
utf8EncodeFrom(s, i) ==
  IF i > Len(s) THEN <<>> ELSE utf8EncodeAt(s, i) \o utf8EncodeFrom(s, i + 1)

textEncoderEncode(s) == utf8EncodeFrom(s, 1)

\* the encoding a label names, "RangeError" when new TextDecoder(label) throws; the
\* labels known here are those of UTF-8 and UTF-16
labelEncoding(label) ==
  LET l == ToLowerAscii(TrimEnd(TrimStart(label)))
  IN CASE l \in {S_utf8, S_utf8Short} -> "utf-8"
       [] l \in {S_utf16le, S_utf16} -> "utf-16le"
       [] l = S_utf16be -> "utf-16be"
       [] OTHER -> "RangeError"

IsContinuation(bytes, i, lo, hi) == i <= Len(bytes) /\ bytes[i] >= lo /\ bytes[i] <= hi

\* the code point of n bytes starting at i, as UTF-16 code units
utf8CodeUnits(cp) ==
  IF cp < 65536 THEN <<cp>>
  ELSE <<55296 + ((cp - 65536) \div 1024), 56320 + ((cp - 65536) % 1024)>>

\* one step of the UTF-8 decoder at byte i: the code units it emits and the bytes it
\* consumes (a malformed sequence gives U+FFFD and consumes its well-formed prefix)
utf8DecodeStep(bytes, i) ==
  LET b == bytes[i]
      bad(n) == [units |-> <<Replacement>>, used |-> n]
      lo2 == IF b = 224 THEN 160 ELSE IF b = 240 THEN 144 ELSE 128
      hi2 == IF b = 237 THEN 159 ELSE IF b = 244 THEN 143 ELSE 191
  IN IF b < 128 THEN [units |-> <<b>>, used |-> 1]
     ELSE IF b >= 194 /\ b <= 223
     THEN IF IsContinuation(bytes, i + 1, 128, 191)
          THEN [units |-> <<(b - 192) * 64 + (bytes[i + 1] - 128)>>, used |-> 2]
          ELSE bad(1)
     ELSE IF b >= 224 /\ b <= 239
     THEN IF ~IsContinuation(bytes, i + 1, lo2, hi2) THEN bad(1)
          ELSE IF ~IsContinuation(bytes, i + 2, 128, 191) THEN bad(2)
          ELSE [units |-> <<(b - 224) * 4096 + (bytes[i + 1] - 128) * 64
                            + (bytes[i + 2] - 128)>>, used |-> 3]
     ELSE IF b >= 240 /\ b <= 244
     THEN IF ~IsContinuation(bytes, i + 1, lo2, hi2) THEN bad(1)
          ELSE IF ~IsContinuation(bytes, i + 2, 128, 191) THEN bad(2)
          ELSE IF ~IsContinuation(bytes, i + 3, 128, 191) THEN bad(3)
          ELSE [units |-> utf8CodeUnits((b - 240) * 262144 + (bytes[i + 1] - 128) * 4096
                                        + (bytes[i + 2] - 128) * 64 + (bytes[i + 3] - 128)),
                used |-> 4]
     ELSE bad(1)

RECURSIVE utf8DecodeFrom(_, _)
utf8DecodeFrom(bytes, i) ==
  IF i > Len(bytes) THEN <<>>
  ELSE LET step == utf8DecodeStep(bytes, i)
       IN step.units \o utf8DecodeFrom(bytes, i + step.used)

\* the code unit of the byte pair at i, and U+FFFD for a last byte without a partner
utf16UnitAt(bytes, i, bigEndian) ==
  IF i + 1 > Len(bytes) THEN Replacement
  ELSE IF bigEndian THEN bytes[i] * 256 + bytes[i + 1]
  ELSE bytes[i + 1] * 256 + bytes[i]

RECURSIVE utf16DecodeFrom(_, _, _)
utf16DecodeFrom(bytes, i, bigEndian) ==
  IF i > Len(bytes) THEN <<>>
  ELSE LET u == utf16UnitAt(bytes, i, bigEndian)
       IN IF IsHighSurrogate(u) /\ i + 2 = Len(bytes) THEN <<Replacement>>
          ELSE IF /\ IsHighSurrogate(u) /\ i + 3 <= Len(bytes)
             /\ IsLowSurrogate(utf16UnitAt(bytes, i + 2, bigEndian))
          THEN <<u, utf16UnitAt(bytes, i + 2, bigEndian)>>
                 \o utf16DecodeFrom(bytes, i + 4, bigEndian)
          ELSE <<IF IsHighSurrogate(u) \/ IsLowSurrogate(u) THEN Replacement ELSE u>>
                 \o utf16DecodeFrom(bytes, i + 2, bigEndian)

\* a decoder drops one leading byte order mark
dropByteOrderMark(units) ==
  IF units # <<>> /\ units[1] = ByteOrderMark THEN SubSeq(units, 2, Len(units)) ELSE units

\* new TextDecoder(label).decode(bytes): a returned string, or the error thrown
textDecode(label, bytes) ==
  CASE labelEncoding(label) = "utf-8" ->
         [kind |-> "returned", str |-> dropByteOrderMark(utf8DecodeFrom(bytes, 1))]
    [] labelEncoding(label) = "utf-16le" ->
         [kind |-> "returned", str |-> dropByteOrderMark(utf16DecodeFrom(bytes, 1, FALSE))]
    [] labelEncoding(label) = "utf-16be" ->
         [kind |-> "returned", str |-> dropByteOrderMark(utf16DecodeFrom(bytes, 1, TRUE))]
    [] OTHER -> [kind |-> "thrown", error |-> "RangeError"]

(***************************************************************************)
(* decodeRecord (utils/nfcUtils.ts)                                        *)
(***************************************************************************)
\* record.encoding ?? "utf-8"
encodingOrUtf8(record) ==
  IF record.encoding.kind \in {"undefined", "null"} THEN S_utf8 ELSE record.encoding.str

\* the form of decodeRecord that decodes whatever the data member is
decodeRecord_noGuard(record) ==
  textDecode(encodingOrUtf8(record),
             IF Truthy(record.data) THEN record.data.buffer ELSE <<>>)

decodeRecord(record) ==
  IF ~Truthy(record.data) THEN [kind |-> "returned", str |-> S_NoData]
  ELSE textDecode(encodingOrUtf8(record), record.data.buffer)

\* the bytes of the buffers behind the records' views
DecodeBytes == {0, 72, 105, 195, 169, 216, 255}
DecodeBuffers == SeqsUpTo(DecodeBytes, MaxViewBytes)

\* new DataView(buffer, byteOffset): the view of a buffer from an offset to its end
DataViews ==
  {DataViewOver(b, off, Len(b) - off) : b \in DecodeBuffers, off \in {0, 1}}

EncodingLabels ==
  {Undefined, Null} \cup
  {StringValue(l) : l \in {<<>>, S_utf8, S_utf8Upper, S_utf16le, S_utf16be, S_bogus}}

DecodeInputs ==
  {Record(t, Undefined, Undefined, enc, Undefined, data) :
     t \in {S_text, S_unknown}, enc \in EncodingLabels,
     data \in {Undefined, Null} \cup {v \in DataViews : v.byteLength >= 0}}

InitDecode ==
  /\ UtilIdle /\ FormIdle /\ TagIdle
  /\ pc = "decode"
  /\ ndefRecord \in DecodeInputs
  /\ decoded = Undefined

DecodeRecord ==
  /\ pc = "decode"
  /\ decoded' = decodeRecord(ndefRecord)
  /\ pc' = "decoded"
  /\ UNCHANGED <<ndefRecord, utilVars, formVars, alerts, tagVars>>

NextDecode == DecodeRecord

SpecDecode == InitDecode /\ [][NextDecode]_vars

(***************************************************************************)
(* Properties of decodeRecord.                                             *)
(***************************************************************************)
PayloadAbsent == ndefRecord.data \in {Undefined, Null}

\* C17: for every record whose payload is absent (null or undefined), whatever its
\* recordType and declared encoding, decodeRecord returns "No data in record" and
\* does not throw.
C17_AbsentPayloadSentinel ==
  (pc = "decoded" /\ PayloadAbsent) => decoded = [kind |-> "returned", str |-> S_NoData]

C17_AbsentWithBogusEncodingWitness ==
  /\ pc = "decoded" /\ ndefRecord.data = Null
  /\ ndefRecord.encoding = StringValue(S_bogus) /\ ndefRecord.recordType = S_unknown
  /\ decoded.kind = "returned" /\ decoded.str = S_NoData

\* C18: decodeRecord raises no error for any record: whatever the payload and the
\* encoding label, the call ends in a returned string.
C18_NeverThrows == pc = "decoded" => decoded.kind = "returned"

\* decodeRecord raises no error for a record whose encoding is absent or a label of
\* UTF-8 or UTF-16, however malformed the payload
C18_KnownLabelNeverThrows ==
  (pc = "decoded" /\ labelEncoding(encodingOrUtf8(ndefRecord)) # "RangeError")
    => decoded.kind = "returned"

(***************************************************************************)
(* recordService (services/recordService.ts): handleAddRecord and          *)
(* handleDeleteRecord, and the records writeNFC (services/nfcService.ts)   *)
(* hands to NDEFReader.write.                                              *)
(***************************************************************************)
\* an NDEFRecord of the working list; _smartPosterData is the member handleAddRecord
\* attaches to a smart-poster record
NDEFRecordValue(t, mt, id, enc, lang, data, poster) ==
  [recordType |-> t, mediaType |-> mt, id |-> id, encoding |-> enc, lang |-> lang,
   data |-> data, smartPosterData |-> poster]

\* if (recordInit.x) payload.x = recordInit.x
WhenTruthy(v) == IF Truthy(v) THEN v ELSE Undefined

\* the NDEFRecordInit handleAddRecord passes to the NDEFRecord constructor
constructorPayload(recordInit) ==
  Record(recordInit.recordType, WhenTruthy(recordInit.mediaType), WhenTruthy(recordInit.id),
         WhenTruthy(recordInit.encoding), WhenTruthy(recordInit.lang), recordInit.data)

\* the record a successful new NDEFRecord(init) gives: the members of init, the data
\* as a DataView, and null data for a smart-poster
newNDEFRecord(init) ==
  NDEFRecordValue(init.recordType, init.mediaType, init.id, init.encoding, init.lang,
    CASE init.recordType = S_smartPoster -> Null
      [] init.data.kind = "ArrayBuffer" -> DataViewValue(init.data.bytes)
      [] init.data.kind = "string" -> DataViewValue(textEncoderEncode(init.data.str))
      [] init.data.kind = "message" -> init.data
      [] OTHER -> Undefined,
    Undefined)

\* the messages of the errors the NDEFRecord constructor may throw
ConstructorErrors == {"Test NDEFRecord construction error"}
Constructed == "constructed"

\* the form of withSmartPosterData that attaches the nested message to every record
withSmartPosterData_always(newRecord, init) ==
  [newRecord EXCEPT !.smartPosterData = init.data]

\* newRecord._smartPosterData = payload.data, for a smart-poster with data
withSmartPosterData(newRecord, init) ==
  IF newRecord.recordType = S_smartPoster /\ Truthy(init.data)
  THEN [newRecord EXCEPT !.smartPosterData = init.data]
  ELSE newRecord

\* the form of pushRecord that puts the record in front
pushRecord_unshift(list, newRecord) == <<newRecord>> \o list

\* scannedTag.value.records.push(newRecord)
pushRecord(list, newRecord) == Append(list, newRecord)

\* the form of splice that removes the last record
splice_last(list, start) == SubSeq(list, 1, Len(list) - 1)

\* records.splice(start, 1), start counted from 0
splice(list, start) == SubSeq(list, 1, start) \o SubSeq(list, start + 2, Len(list))

\* the form of the empty branch of writeNFC that leaves the members in place
emptyRecordInit_keepsMembers(obj) == obj

\* writeNFC, recordType "empty": mediaType, encoding and lang are deleted, no data
emptyRecordInit(obj) ==
  [obj EXCEPT !.mediaType = Undefined, !.encoding = Undefined, !.lang = Undefined,
              !.data = Undefined]

\* the bytes a DataView shows of its buffer
viewBytes(view) == SubSeq(view.buffer, view.byteOffset + 1, view.byteOffset + view.byteLength)

\* rec.mediaType?.startsWith('text/')
mediaTypeIsText(rec) == rec.mediaType.kind = "string" /\ StartsWith(rec.mediaType.str, S_textSlash)

\* how writeNFC gets the data of a record that is neither smart-poster nor empty:
\* a string, an ArrayBuffer, undefined, or the error new TextDecoder throws
dataToWrite(rec) ==
  IF ~Truthy(rec.data) THEN Undefined
  ELSE IF Truthy(rec.encoding) /\ (rec.recordType = S_text \/ mediaTypeIsText(rec))
  THEN LET text == textDecode(rec.encoding.str, viewBytes(rec.data))
       IN IF text.kind = "returned" THEN StringValue(text.str) ELSE text
  ELSE IF rec.recordType \in {S_url, S_absoluteUrl}
  THEN StringValue(textDecode(S_utf8, viewBytes(rec.data)).str)
  ELSE ArrayBufferValue(viewBytes(rec.data))

\* the NDEFRecordInit writeNFC makes of one record of the working list
recordToWrite(rec) ==
  LET obj == Record(rec.recordType, WhenTruthy(rec.mediaType), WhenTruthy(rec.id),
                    WhenTruthy(rec.encoding), WhenTruthy(rec.lang), Undefined)
  IN IF rec.recordType = S_smartPoster
     THEN [obj EXCEPT !.data = rec.smartPosterData, !.encoding = Undefined,
                      !.lang = Undefined]
     ELSE IF rec.recordType = S_empty THEN emptyRecordInit(obj)
     ELSE [obj EXCEPT !.data = dataToWrite(rec)]

\* records.map(...)
recsToWrite(list) == [i \in 1..Len(list) |-> recordToWrite(list[i])]

\* the map callback threw for some record
mapThrows(list) == \E i \in 1..Len(list) : recsToWrite(list)[i].data.kind = "thrown"

SMALL_TAG_CAPACITY == 140
MEDIUM_TAG_CAPACITY == 500

\* the capacity warnings of writeNFC, as the alerts to append
capacityAlerts(estimatedSize) ==
  IF estimatedSize > MEDIUM_TAG_CAPACITY
  THEN <<"Warning: The data size (~" \o ToString(estimatedSize)
           \o " bytes) is large and may not fit on smaller NFC tags. It might only work on tags with >500 bytes capacity.">>
  ELSE IF estimatedSize > SMALL_TAG_CAPACITY
  THEN <<"Warning: The data size (~" \o ToString(estimatedSize)
           \o " bytes) may not fit on very small NFC tags (like NTAG213, ~144 bytes). Ensure your tag has enough capacity.">>
  ELSE <<>>

(***************************************************************************)
(* The working tag: the records a scan left in it, the records the form    *)
(* adds, the record deleted, and the write.                                *)
(***************************************************************************)
\* records of the working list, scanned or added earlier
T_text ==
  NDEFRecordValue(S_text, Undefined, Undefined, StringValue(S_utf8), StringValue(S_en),
                  DataViewValue(<<72, 105>>), Undefined)
T_url ==
  NDEFRecordValue(S_url, Undefined, StringValue(S_myId), Undefined, Undefined,
                  DataViewOver(<<0>> \o S_httpsUrl, 1, Len(S_httpsUrl)), Undefined)
\* an empty record that holds every member all the same
T_emptyLoaded ==
  NDEFRecordValue(S_empty, StringValue(S_textPlain), StringValue(S_myId),
                  StringValue(S_utf8), StringValue(S_en), DataViewValue(<<1, 2>>), Undefined)
T_poster ==
  NDEFRecordValue(S_smartPoster, Undefined, Undefined, StringValue(S_utf8), StringValue(S_en),
                  Null, MessageValue(<<N_url>>))
\* a text record whose encoding label names no encoding
T_textBogus ==
  NDEFRecordValue(S_text, Undefined, Undefined, StringValue(S_bogus), Undefined,
                  DataViewValue(<<72, 105>>), Undefined)

TagPool == {T_text, T_url, T_emptyLoaded, T_poster, T_textBogus}
TagLists == SeqsUpTo(TagPool, MaxTagRecords)

\* the forms whose record the App hands to handleAddRecord
AppForms ==
  LoadedForms \cup
  {Form(S_empty, <<>>, <<>>, <<>>, <<>>, S_utf8, S_en, <<>>, NoFile),
   Form(S_text, <<>>, <<>>, <<>>, <<>>, <<>>, <<>>, S_Hello, NoFile),
   Form(S_smartPoster, <<>>, S_httpsUrl, <<>>, S_myId, S_utf8, S_en, <<>>, NoFile),
   Form(S_unknown, <<>>, <<>>, <<>>, <<>>, S_utf8, <<>>, S_0xaBcDeF, NoFile)}

\* the add-record events the form emits for them
RecordInits ==
  {prepareRecordPayload(f, isTextBasedMime(f)) :
     f \in {g \in AppForms : handleSubmitAlert(g) = NoAlert}}

InitRecords ==
  /\ UtilIdle /\ FormIdle /\ DecodeIdle
  /\ pc = "tag"
  /\ scannedTag \in {[uuid |-> "", records |-> l] : l \in TagLists}
  /\ ScanIdle
  /\ showAddForm \in BOOLEAN
  /\ index = 0
  /\ status = [reading |-> FALSE, writing |-> FALSE]
  /\ warnings = <<>>
  /\ recordsToWrite = <<>>

\* the form emits add-record and the App calls handleAddRecord with the event
HandleAddRecord ==
  /\ pc = "tag"
  /\ \E recordInit \in RecordInits, outcome \in {Constructed} \cup ConstructorErrors :
       LET init == constructorPayload(recordInit)
       IN /\ emitted' = Append(emitted, recordInit)
          /\ IF outcome = Constructed
             THEN /\ scannedTag' =
                       [scannedTag EXCEPT !.records =
                          pushRecord(@, withSmartPosterData(newNDEFRecord(init), init))]
                  /\ pc' = "added"
                  /\ UNCHANGED alerts
             ELSE /\ alerts' = Append(alerts, "Error adding record: " \o outcome)
                  /\ pc' = "addFailed"
                  /\ UNCHANGED scannedTag
  /\ showAddForm' = FALSE
  /\ UNCHANGED <<form, isMimeTextBasedLogic, payload, index, status, warnings, scanVars,
                 recordsToWrite, utilVars, decodeVars>>

\* a record's delete button: the App calls handleDeleteRecord with the record's index
HandleDeleteRecord ==
  /\ pc = "tag"
  /\ \E i \in -1..(MaxTagRecords + 1) :
       /\ index' = i
       /\ IF i >= 0 /\ i < Len(scannedTag.records)
          THEN /\ scannedTag' = [scannedTag EXCEPT !.records = splice(@, i)]
               /\ UNCHANGED warnings
          ELSE /\ warnings' = Append(warnings,
                    "Attempted to delete record at invalid index: " \o ToString(i))
               /\ UNCHANGED scannedTag
  /\ pc' = "deleted"
  /\ UNCHANGED <<showAddForm, status, recordsToWrite, formVars, alerts, utilVars, decodeVars,
                 scanVars>>

\* writeNFC up to its await: the records are mapped, the size is estimated and warned
\* about, and the message is handed to NDEFReader.write
WriteNFC ==
  /\ pc \in {"tag", "added", "addFailed", "deleted"}
  /\ IF scannedTag.records = <<>>
     THEN pc' = "nothingToWrite" /\ UNCHANGED <<recordsToWrite, alerts, status>>
     ELSE IF mapThrows(scannedTag.records)
     THEN pc' = "writeThrew" /\ UNCHANGED <<recordsToWrite, alerts, status>>
     ELSE /\ recordsToWrite' = recsToWrite(scannedTag.records)
          /\ alerts' = alerts \o capacityAlerts(estimateNdefMessageSize(recordsToWrite', FALSE))
          /\ status' = [status EXCEPT !.writing = TRUE]
          /\ pc' = "writing"
  /\ UNCHANGED <<scannedTag, showAddForm, index, warnings, formVars, utilVars, decodeVars,
                 scanVars>>

\* the messages of the errors NDEFReader.write may reject with
WriteErrors == {"Write failed"}
Written == "written"

\* the form of writeSettled that leaves the flag as it is
writeSettled_keepsWriting(st) == st

\* status.value.writing = false, on success and in the catch block
writeSettled(st) == [st EXCEPT !.writing = FALSE]

\* writeNFC after its await: the write resolved, or rejected with an error
WriteSettled ==
  /\ pc = "writing"
  /\ \E outcome \in {Written} \cup WriteErrors :
       IF outcome = Written
       THEN pc' = "written" /\ UNCHANGED alerts
       ELSE /\ alerts' = Append(alerts, "Error writing tag: " \o outcome)
            /\ pc' = "writeFailed"
  /\ status' = writeSettled(status)
  /\ UNCHANGED <<scannedTag, showAddForm, index, warnings, recordsToWrite, formVars, scanVars,
                 utilVars, decodeVars>>

NextRecords == HandleAddRecord \/ HandleDeleteRecord \/ WriteNFC \/ WriteSettled

SpecRecords == InitRecords /\ [][NextRecords]_vars

(***************************************************************************)
(* Claims about the empty record, deleting and adding.                     *)
(***************************************************************************)
\* a record description that carries none of media type, encoding, language and data
IsBare(r) ==
  /\ r.mediaType = Undefined /\ r.encoding = Undefined
  /\ r.lang = Undefined /\ r.data = Undefined

EmptyOnesBare(list) ==
  \A k \in 1..Len(list) : list[k].recordType = S_empty => IsBare(list[k])

\* C14: a record of type empty carries nothing: the description the form emits for
\* it has no media type, encoding, language or data whatever the form fields and the
\* loaded file hold, and the description writeNFC hands to the writer has none of
\* them either, whatever the record in the working list holds.
C14_EmptyCarriesNothing ==
  /\ EmptyOnesBare(emitted)
  /\ EmptyOnesBare(recordsToWrite)

\* the form emitted an empty record, and the write mapped a list holding an
\* empty record with every member set
C14_LoadedEmptyWitness ==
  /\ pc = "writing"
  /\ emitted # <<>> /\ emitted[1].recordType = S_empty
  /\ \E k \in 1..Len(scannedTag.records) : scannedTag.records[k] = T_emptyLoaded
  /\ \E k \in 1..Len(recordsToWrite) :
       recordsToWrite[k].recordType = S_empty /\ recordsToWrite[k].id = StringValue(S_myId)

\* C19: handleDeleteRecord with an index inside the list removes exactly the record
\* at that index and keeps the others in their order; with any other index the list
\* stays as it was and one warning is logged, and nothing else changes.
C19_DeleteByIndex ==
  [][(pc = "tag" /\ pc' = "deleted") =>
       LET list == scannedTag.records
           after == scannedTag'.records
       IN /\ IF index' >= 0 /\ index' < Len(list)
             THEN /\ Len(after) = Len(list) - 1
                  /\ \A k \in 1..Len(after) :
                       after[k] = IF k <= index' THEN list[k] ELSE list[k + 1]
                  /\ warnings' = warnings
             ELSE /\ after = list
                  /\ Len(warnings') = Len(warnings) + 1
          /\ alerts' = alerts /\ showAddForm' = showAddForm
          /\ recordsToWrite' = recordsToWrite]_vars

\* the middle record of three different ones was deleted
C19_MiddleDeletedWitness ==
  /\ pc = "deleted" /\ index = 1
  /\ scannedTag.records = <<T_text, T_poster>>
  /\ warnings = <<>>

\* C20: handleAddRecord appends exactly one record at the end of the working list
\* when the construction succeeds; when the construction throws, the list stays as
\* it was and one alert "Error adding record: " followed by the error's message is
\* shown; either way the add form is closed afterwards.
C20_AddAppendsOrAlerts ==
  [][(pc = "tag" /\ pc' \in {"added", "addFailed"}) =>
       LET list == scannedTag.records
           after == scannedTag'.records
       IN /\ pc' = "added" =>
               /\ Len(after) = Len(list) + 1
               /\ SubSeq(after, 1, Len(list)) = list
               /\ after[Len(after)].recordType = emitted'[Len(emitted')].recordType
               /\ alerts' = alerts
          /\ pc' = "addFailed" =>
               /\ after = list
               /\ \E message \in ConstructorErrors :
                    alerts' = Append(alerts, "Error adding record: " \o message)
          /\ showAddForm' = FALSE
          /\ warnings' = warnings /\ recordsToWrite' = recordsToWrite]_vars

\* a smart poster was appended after two scanned records
C20_AppendedWitness ==
  /\ pc = "added" /\ ~showAddForm
  /\ Len(scannedTag.records) = 3
  /\ SubSeq(scannedTag.records, 1, 2) = <<T_url, T_text>>
  /\ scannedTag.records[3].recordType = S_smartPoster
  /\ scannedTag.records[3].smartPosterData # Undefined
  /\ alerts = <<>>

(***************************************************************************)
(* The size of a smart-poster, and the bytes decodeRecord reads.           *)
(***************************************************************************)
PosterAt(i) ==
  records[i].recordType = S_smartPoster /\ records[i].data.kind = "message"

\* C24: the size of a smart-poster of the estimated message is 1 + 1 + the 2 bytes
\* of "Sp" + its payload-length field + its id field + its payload, where the
\* payload is what estimateNdefMessageSize returns for the nested list in a nested
\* call of its own and the payload-length field is 1 byte when that total is below
\* 256 and 4 bytes otherwise; and the total of a message is the sum of the sizes of
\* its records each taken alone, so that no record's size depends on its siblings.
C24_PosterSizeIndependent ==
  pc = "estimated" =>
    /\ totalSize = SumOfSingles(records, 1)
    /\ \A i \in 1..Len(records) :
         PosterAt(i) =>
           LET nested == estimateNdefMessageSize(records[i].data.records, TRUE)
           IN estimateNdefMessageSize(<<records[i]>>, FALSE)
                = 1 + 1 + 2 + (IF nested < 256 THEN 1 ELSE 4)
                    + idFieldSize(records[i]) + nested

\* a smart-poster with an id and a nested total of 256 or more was estimated
C24_LongPosterWitness ==
  /\ pc = "estimated" /\ Len(records) = 1 /\ PosterAt(1)
  /\ estimateNdefMessageSize(records[1].data.records, TRUE) >= 256
  /\ Truthy(records[1].id)
  /\ totalSize = 1 + 1 + 2 + 4 + idFieldSize(records[1])
                   + estimateNdefMessageSize(records[1].data.records, TRUE)

\* C30: decodeRecord decodes exactly the bytes the payload view exposes, from its
\* byteOffset for byteLength bytes, and for a text record with an encoding it
\* returns the string writeNFC decodes from the same view.
C30_DecodesViewBytes ==
  (pc = "decoded" /\ ~PayloadAbsent /\ decoded.kind = "returned") =>
    /\ decoded.str = textDecode(encodingOrUtf8(ndefRecord), viewBytes(ndefRecord.data)).str
    /\ (ndefRecord.recordType = S_text /\ Truthy(ndefRecord.encoding))
         => StringValue(decoded.str) = dataToWrite(ndefRecord)

\* decodeRecord decodes the bytes of the view when the view covers its whole buffer
C30_WholeBufferViewDecoded ==
  (pc = "decoded" /\ ~PayloadAbsent /\ decoded.kind = "returned"
     /\ ndefRecord.data.byteOffset = 0
     /\ ndefRecord.data.byteLength = Len(ndefRecord.data.buffer)) =>
    decoded.str = textDecode(encodingOrUtf8(ndefRecord), viewBytes(ndefRecord.data)).str

MaxSessions == 2
MaxOps == 6

\* a smart-poster as a tag reading event delivers it: the payload bytes behind a
\* view, and no member added by this application
T_posterScanned ==
  NDEFRecordValue(S_smartPoster, Undefined, Undefined, Undefined, Undefined,
                  DataViewValue(<<209, 1, 1, 85>>), Undefined)

\* the NDEFReadingEvents the transport dispatches
ReadingEvents ==
  <<[serialNumber |-> "04:a1:b2", message |-> [records |-> <<T_text>>]],
    [serialNumber |-> "04:c3:d4", message |-> [records |-> <<T_posterScanned, T_url>>]]>>

\* the errors ndef.scan() rejects with
AbortError == [name |-> "AbortError", message |-> "The operation was aborted."]
NotSupportedError == [name |-> "NotSupportedError", message |-> "WebNFC is not supported."]
OtherError == [name |-> "Error", message |-> "Some other scan error"]
ScanErrors == {AbortError, NotSupportedError, OtherError}

\* what a readNFC call that starts a scan has made when it reaches its await
NewSession ==
  [handlers |-> TRUE, aborted |-> FALSE, abortCalls |-> 0,
   scan |-> "pending", call |-> "pending"]

Op(name, k, e) == [op |-> name, session |-> k, event |-> e]

\* the form of writeInProgress that never sees a write in progress
writeInProgress_never(st) == FALSE

\* if (status.value.writing) return
writeInProgress(st) == st.writing

\* the form of scanInProgress that never sees a scan in progress
scanInProgress_never(st) == FALSE

\* if (status.value.reading) return
scanInProgress(st) == st.reading

\* ndef.onreading = () => {}; ndef.onreadingerror = () => {}, for the reader of call k
removeHandlers(ss, k) == [ss EXCEPT ![k].handlers = FALSE]

\* scanAbortController.value && !scanAbortController.value.signal.aborted
canAbort(c, ss) == c # 0 /\ ~ss[c].aborted

\* controller c .abort(): the signal is aborted and its onabort handler has run
\* (status.reading = false, and the handlers of that call's reader are removed)
abortedSessions(ss, c) ==
  removeHandlers([ss EXCEPT ![c].aborted = TRUE, ![c].abortCalls = @ + 1], c)

\* the transport dispatches events to the reader of call k: its scan has started
\* and its signal is not aborted
Dispatching(k) == ~sessions[k].aborted /\ sessions[k].scan = "resolved"

\* the Scan button: readNFC up to its await of ndef.scan()
ReadNFC ==
  /\ opCount < MaxOps
  /\ opCount' = opCount + 1
  /\ IF scanInProgress(status)
     THEN /\ lastOp' = Op("readNFC", 0, 0)
          /\ UNCHANGED <<sessions, scanAbortController, status>>
     ELSE /\ Len(sessions) < MaxSessions
          /\ sessions' = Append(sessions, NewSession)
          /\ scanAbortController' = Len(sessions) + 1
          /\ status' = [status EXCEPT !.reading = TRUE]
          /\ lastOp' = Op("readNFC", Len(sessions) + 1, 0)
  /\ UNCHANGED <<pc, continuousScan, scannedTag, showAddForm, index, warnings, recordsToWrite,
                 alerts, utilVars, formVars, decodeVars>>

\* the scan() promise of call k resolves, and readNFC resolves after it
ScanResolved ==
  /\ opCount < MaxOps
  /\ \E k \in 1..Len(sessions) :
       /\ sessions[k].scan = "pending" /\ ~sessions[k].aborted
       /\ sessions' = [sessions EXCEPT ![k].scan = "resolved", ![k].call = "resolved"]
       /\ lastOp' = Op("scanResolved", k, 0)
  /\ opCount' = opCount + 1
  /\ UNCHANGED <<pc, continuousScan, scanAbortController, status, scannedTag, showAddForm,
                 index, warnings, recordsToWrite, alerts, utilVars, formVars, decodeVars>>

\* the scan() promise of call k rejects and the catch block of readNFC runs: with an
\* AbortError when the signal was aborted, with another error when it was not
ScanRejected ==
  /\ opCount < MaxOps
  /\ \E k \in 1..Len(sessions), error \in ScanErrors :
       /\ sessions[k].scan = "pending"
       /\ sessions[k].aborted <=> error = AbortError
       /\ status' = [status EXCEPT !.reading = FALSE]
       /\ IF error.name = "AbortError"
          THEN /\ scanAbortController' = 0
               /\ sessions' = [removeHandlers(sessions, k) EXCEPT
                                 ![k].scan = "rejected", ![k].call = "resolved"]
               /\ UNCHANGED alerts
          ELSE /\ alerts' = Append(alerts,
                    IF error.name = "NotSupportedError"
                    THEN "WebNFC is not supported on this device/browser."
                    ELSE "Error initiating scan: " \o error.message)
               /\ sessions' = [removeHandlers(sessions, k) EXCEPT
                                 ![k].scan = "rejected", ![k].call = "rejected"]
               /\ UNCHANGED scanAbortController
       /\ lastOp' = Op("scanRejected", k, 0)
  /\ opCount' = opCount + 1
  /\ UNCHANGED <<pc, continuousScan, scannedTag, showAddForm, index, warnings,
                 recordsToWrite, utilVars, formVars, decodeVars>>

\* a reading event is dispatched to the reader of call k
OnReading ==
  /\ opCount < MaxOps
  /\ \E k \in 1..Len(sessions), e \in 1..Len(ReadingEvents) :
       /\ Dispatching(k)
       /\ lastOp' = Op("onreading", k, e)
       /\ IF ~sessions[k].handlers \/ writeInProgress(status)
          THEN UNCHANGED <<scannedTag, status, sessions>>
          ELSE /\ scannedTag' = [uuid |-> ReadingEvents[e].serialNumber,
                                 records |-> ReadingEvents[e].message.records]
               /\ IF continuousScan
                  THEN UNCHANGED <<status, sessions>>
                  ELSE /\ status' = [status EXCEPT !.reading = FALSE]
                       /\ sessions' =
                            IF canAbort(scanAbortController, removeHandlers(sessions, k))
                            THEN abortedSessions(removeHandlers(sessions, k),
                                                 scanAbortController)
                            ELSE removeHandlers(sessions, k)
  /\ opCount' = opCount + 1
  /\ UNCHANGED <<pc, continuousScan, scanAbortController, showAddForm, index, warnings,
                 recordsToWrite, alerts, utilVars, formVars, decodeVars>>

\* a reading-error event is dispatched to the reader of call k
OnReadingError ==
  /\ opCount < MaxOps
  /\ \E k \in 1..Len(sessions) :
       /\ Dispatching(k)
       /\ lastOp' = Op("onreadingerror", k, 0)
       /\ IF ~sessions[k].handlers
          THEN UNCHANGED <<status, sessions>>
          ELSE /\ status' = [status EXCEPT !.reading = FALSE]
               /\ sessions' = removeHandlers(sessions, k)
  /\ opCount' = opCount + 1
  /\ UNCHANGED <<pc, continuousScan, scanAbortController, scannedTag, showAddForm, index,
                 warnings, recordsToWrite, alerts, utilVars, formVars, decodeVars>>

\* the Cancel button: cancelScan
CancelScan ==
  /\ opCount < MaxOps
  /\ lastOp' = Op("cancelScan", scanAbortController, 0)
  /\ IF canAbort(scanAbortController, sessions)
     THEN /\ sessions' = abortedSessions(sessions, scanAbortController)
          /\ status' = [status EXCEPT !.reading = FALSE]
     ELSE UNCHANGED <<sessions, status>>
  /\ opCount' = opCount + 1
  /\ UNCHANGED <<pc, continuousScan, scanAbortController, scannedTag, showAddForm, index,
                 warnings, recordsToWrite, alerts, utilVars, formVars, decodeVars>>

InitScan ==
  /\ UtilIdle /\ FormIdle /\ DecodeIdle
  /\ pc = "tag"
  /\ scannedTag = [uuid |-> "", records |-> <<>>]
  /\ showAddForm = FALSE /\ index = 0
  /\ status = [reading |-> FALSE, writing |-> FALSE]
  /\ warnings = <<>> /\ recordsToWrite = <<>>
  /\ scanAbortController = 0
  /\ continuousScan \in BOOLEAN
  /\ sessions = <<>> /\ lastOp = NoOp /\ opCount = 0

NextScan ==
  \/ ReadNFC \/ ScanResolved \/ ScanRejected \/ OnReading \/ OnReadingError
  \/ CancelScan \/ WriteNFC \/ WriteSettled

SpecScan == InitScan /\ [][NextScan]_vars

(***************************************************************************)
(* Claims about the scan service.                                          *)
(***************************************************************************)
\* an operation of the scan service ran in this step
Ran(name) == opCount' = opCount + 1 /\ lastOp'.op = name

\* the event of the reading event that was dispatched in this step
Dispatched == ReadingEvents[lastOp'.event]

\* the reader of call k has the handlers of readNFC installed and its signal is
\* not aborted
Live(k) == sessions[k].handlers /\ ~sessions[k].aborted

\* C21: a scan session keeps status.reading true from the start of readNFC until
\* it is stopped: in single-scan mode the first accepted reading event stores the
\* serial number and the records, sets reading false and aborts the session's
\* controller exactly once, and later events of the session change nothing; in
\* continuous mode reading is true after every reading event of a session;
\* cancelScan aborts the controller only when it is non-null and not aborted, and
\* after the abort reading is false.
C21_ScanSession ==
  [][LET k == lastOp'.session
     IN /\ (Ran("readNFC") /\ k # 0) => status'.reading
        /\ (Ran("onreading") /\ Live(k) /\ ~status.writing /\ ~continuousScan) =>
             /\ scannedTag' = [uuid |-> Dispatched.serialNumber,
                               records |-> Dispatched.message.records]
             /\ ~status'.reading
             /\ sessions'[k].aborted /\ sessions'[k].abortCalls = 1
        /\ (Ran("onreading") /\ ~sessions[k].handlers) =>
             UNCHANGED <<scannedTag, status, sessions, scanAbortController>>
        /\ (Ran("onreading") /\ Live(k) /\ continuousScan) => status'.reading
        /\ Ran("cancelScan") =>
             IF scanAbortController # 0 /\ ~sessions[scanAbortController].aborted
             THEN /\ sessions'[scanAbortController].aborted
                  /\ sessions'[scanAbortController].abortCalls = 1
                  /\ ~status'.reading
             ELSE UNCHANGED <<sessions, status>>]_vars

\* C22: when ndef.scan() rejects, status.reading is false, scanAbortController is
\* null and the reading handlers are removed once readNFC settles; for an AbortError
\* readNFC resolves with no alert, for NotSupportedError it alerts that WebNFC is not
\* supported, for any other error it alerts "Error initiating scan: " and the
\* message, and in these two cases readNFC rejects.
C22_ScanRejectionCleansUp ==
  [][Ran("scanRejected") =>
       LET k == lastOp'.session
       IN /\ ~status'.reading
          /\ scanAbortController' = 0
          /\ ~sessions'[k].handlers
          /\ sessions'[k].call = "resolved" => alerts' = alerts
          /\ sessions'[k].call = "rejected" =>
               \/ alerts' = Append(alerts, "WebNFC is not supported on this device/browser.")
               \/ alerts' = Append(alerts, "Error initiating scan: " \o OtherError.message)
          /\ sessions'[k].call = (IF sessions[k].aborted THEN "resolved" ELSE "rejected")]_vars

\* when ndef.scan() rejects with an AbortError, readNFC resolves with no alert, with
\* status.reading false, scanAbortController null and the handlers removed
C22_AbortErrorCleansUp ==
  [][(Ran("scanRejected") /\ sessions[lastOp'.session].aborted) =>
       /\ ~status'.reading /\ scanAbortController' = 0
       /\ ~sessions'[lastOp'.session].handlers
       /\ sessions'[lastOp'.session].call = "resolved" /\ alerts' = alerts]_vars

\* C25: while status.reading is true, a call of readNFC makes no NDEFReader and no
\* AbortController, starts no scan, and leaves status, the scanned tag and the
\* stored abort controller as they are.
C25_NoSecondScanWhileReading ==
  [][(Ran("readNFC") /\ status.reading) =>
       /\ sessions' = sessions
       /\ status' = status
       /\ scannedTag' = scannedTag
       /\ scanAbortController' = scanAbortController]_vars

\* readNFC was called a second time while the first scan was listening
C25_EarlyReturnWitness ==
  /\ lastOp = Op("readNFC", 0, 0) /\ opCount = 3
  /\ status.reading /\ Len(sessions) = 1 /\ sessions[1].scan = "resolved"
  /\ scanAbortController = 1

\* C26: a reading event handled by a session's onreading handler while
\* status.writing is true changes neither the serial number nor the working list
\* nor status.reading; one handled while writing is false replaces the serial
\* number and the whole list by the event's serial number and records, in the
\* event's order.
C26_ReadingEventWhileWriting ==
  [][(Ran("onreading") /\ sessions[lastOp'.session].handlers) =>
       IF status.writing
       THEN scannedTag' = scannedTag /\ status'.reading = status.reading
       ELSE /\ scannedTag'.uuid = Dispatched.serialNumber
            /\ scannedTag'.records = Dispatched.message.records]_vars

\* the second tag was read while the records of the first were being written
C26_IgnoredWhileWritingWitness ==
  /\ lastOp.op = "onreading" /\ lastOp.event = 2
  /\ sessions[lastOp.session].handlers
  /\ status.writing /\ status.reading /\ pc = "writing"
  /\ scannedTag = [uuid |-> ReadingEvents[1].serialNumber,
                   records |-> ReadingEvents[1].message.records]

\* C27: whenever a scan session is live (its handlers are installed and its signal
\* is not aborted), status.reading is true and scanAbortController holds that
\* session's controller.
C27_LiveSessionCancellable ==
  \A k \in 1..Len(sessions) :
    Live(k) => status.reading /\ scanAbortController = k

\* C28: whenever status.reading is false after a scan was started, the abort signal
\* of every session that was started has been aborted.
C28_ClearedMeansAborted ==
  ~status.reading => \A k \in 1..Len(sessions) : sessions[k].aborted

\* C29: writeNFC hands the transport one record per record of the working list, in
\* the same order and with the same recordType, and the data of every smart-poster
\* among them is a nested record list whose first record is a url record.
C29_PosterWrittenWithMessage ==
  pc = "writing" =>
    /\ Len(recordsToWrite) = Len(scannedTag.records)
    /\ \A i \in 1..Len(recordsToWrite) :
         /\ recordsToWrite[i].recordType = scannedTag.records[i].recordType
         /\ recordsToWrite[i].recordType = S_smartPoster =>
              /\ recordsToWrite[i].data.kind = "message"
              /\ recordsToWrite[i].data.records # <<>>
              /\ recordsToWrite[i].data.records[1].recordType = S_url

====
